---- MODULE Spec2Model ----
(***************************************************************************)
(* Model of live-api/core/session_manager.py: one SessionManager, the      *)
(* upstream streams it opens, the coroutines that call it and the async    *)
(* generator returned by receive().                                        *)
(*                                                                         *)
(* Every coroutine is cut at its await: the part before the await is one   *)
(* action (the call), the part after it another (the completion), so that  *)
(* other coroutines of the same event loop can run in between, as asyncio  *)
(* allows.  What the upstream SDK answers at an await (success, exception, *)
(* the next event) is chosen by the environment.                           *)
(***************************************************************************)
EXTENDS Integers, Sequences, FiniteSets, TLC

\* ------------------------------------------------------------------ bounds
\* number of upstream contexts one run may create (connect attempts)
MaxStreams == 2
\* number of entries the conversation history may reach
MaxHistory == 2
MaxRegistrations == 2
MaxBatch == 2
MaxTurns == 2
MaxToolCalls == 2
\* number of upstream responses a receive loop reads while its frames are recorded
MaxEvents == 2

\* ------------------------------------------------------------ value spaces
\* The coroutines that call the manager (server/websocket_proxy.py): the loop
\* that handles the client's frames, and the loop that drains receive().
Inbound == "inbound"
RecvLoop == "recvloop"
Tasks == {Inbound, RecvLoop}
Texts == {"Hello", "Hi"}
Tokens == {"tok1", "tok2"}
AudioData == {"pcm"}
ToolResponses == {"results"}

\* SessionState (session_manager.py:15-23)
DISCONNECTED == "disconnected"
CONNECTING == "connecting"
CONNECTED == "connected"
INTERRUPTED == "interrupted"
CLOSING == "closing"
CLOSED == "closed"
ERROR == "error"
SessionState == {DISCONNECTED, CONNECTING, CONNECTED, INTERRUPTED, CLOSING, CLOSED, ERROR}

\* Python's None, for a handle and for a string
NoStream == 0
None == "none"

\* the events an upstream stream can produce, as far as receive() reads them:
\* server_content.interrupted and session_resumption_update (which carries its
\* token in the attribute `token` or in the attribute `resumption_token`)
NoUpdate == [field |-> None, value |-> None]
Updates == {NoUpdate} \cup [field : {"token", "resumption_token"}, value : Tokens]
Events == [interrupted : BOOLEAN, update : Updates]

NoWrite == [stream |-> NoStream, kind |-> None, payload |-> None]

VARIABLES
    state,                  \* self._state
    session,                \* self._session: the open stream, or NoStream
    session_context,        \* self._session_context: the context manager, or NoStream
    resumption_token,       \* self._resumption_token
    conversation_history,   \* self._conversation_history
    opened,                 \* upstream streams entered and not yet exited
    nextId,                 \* identity of the next context the client creates
    pc,                     \* per task: the call it is suspended in
    turn,                   \* the stream the running receive() generator iterates, or NoStream
    out,                    \* what the last step did: call, result, callbacks, upstream write, event
    tools,                  \* ToolExecutor._tools: name -> handler
    tool_declarations,      \* ToolExecutor._tool_declarations
    exec,                   \* the execute_tool / execute_multiple call in progress, or the last one
    live,                   \* LiveSession: the client socket, the receive loop, the tool-call batch
    sessions,               \* WebSocketProxyServer.sessions: the registered ids, in insertion order
    conn,                   \* per accepted websocket: handle_client's position and its LiveSession
    did,                    \* what the last step of the server did
    held                    \* the list a caller got from get_conversation_history, if any

mgrVars == <<state, session, session_context, resumption_token, conversation_history>>
sessVars == <<state, session, session_context, resumption_token, conversation_history,
              opened, nextId, pc, turn, out>>
toolVars == <<tools, tool_declarations, exec, live>>
proxyVars == <<sessions, conn, did>>
vars == <<state, session, session_context, resumption_token, conversation_history,
          opened, nextId, pc, turn, out, tools, tool_declarations, exec, live,
          sessions, conn, did, held>>

\* ------------------------------------------------------- the manager object
\* The fields of self, plus the on_state_change calls made so far in the step.
Self ==
    [state |-> state, session |-> session, session_context |-> session_context,
     resumption_token |-> resumption_token,
     conversation_history |-> conversation_history, fired |-> <<>>]

Install(m) ==
    /\ state' = m.state
    /\ session' = m.session
    /\ session_context' = m.session_context
    /\ resumption_token' = m.resumption_token
    /\ conversation_history' = m.conversation_history

\* A task's position: the call it is suspended in (op), the context or stream the
\* awaited SDK call was made on (ctx), the argument of the call (payload) and,
\* for reset, the context its connect will create (new).
Pos(op, ctx, payload, new) ==
    [op |-> op, ctx |-> ctx, payload |-> payload, new |-> new]
Idle == Pos("idle", NoStream, None, NoStream)

\* What a step did: the call (op), how it ended so far (result: "pending"
\* at an await, else the return value or the exception), what the awaited SDK
\* call answered (sdk), the on_state_change calls made (fired), what was written
\* upstream (wrote), the upstream event read (event) and the one yielded, and
\* the frames _handle_tool_calls wrote to the client (frames).
Out(op, result, sdk, m, wrote, event, yielded) ==
    [op |-> op, result |-> result, sdk |-> sdk, fired |-> m.fired,
     wrote |-> wrote, event |-> event, yielded |-> yielded, frames |-> <<>>]

\* a _set_state that calls on_state_change whether or not the state changes
SetStateAlwaysFires(m, new_state) ==
    [m EXCEPT !.state = new_state, !.fired = Append(@, new_state)]

\* _set_state: change the state and call on_state_change, only on a change
SetState(m, new_state) ==
    IF m.state # new_state
    THEN [m EXCEPT !.state = new_state, !.fired = Append(@, new_state)]
    ELSE m

\* is_connected
IsConnected(m) == m.state = CONNECTED

ManagerInit ==
    /\ state = DISCONNECTED
    /\ session = NoStream
    /\ session_context = NoStream
    /\ resumption_token = None
    /\ conversation_history = <<>>
    /\ opened = {}
    /\ nextId = 1
    /\ pc = [t \in Tasks |-> Idle]
    /\ turn = NoStream
    /\ out = [op |-> "init", result |-> None, sdk |-> None, fired |-> <<>>,
              wrote |-> NoWrite, event |-> <<>>, yielded |-> <<>>, frames |-> <<>>]
    /\ held = <<>>

\* ------------------------------------------------------------------ connect
\* connect(): the handle in session_config["session_resumption"], which is
\* built as `{}` whatever token the manager has stored: there is none
SessionResumption(m) == None

\* connect(), up to `await self._session_context.__aenter__()`
ConnectBegin(m, ctx) ==
    [SetState(m, CONNECTING) EXCEPT !.session_context = ctx]

\* connect(), after __aenter__ returned the stream of context ctx
ConnectEntered(m, ctx) == SetState([m EXCEPT !.session = ctx], CONNECTED)

\* an except branch that leaves the state alone
ConnectFailedSilently(m) == m

\* connect(), the except branch
ConnectFailed(m) == SetState(m, ERROR)

ConnectCall(t) ==
    /\ pc[t].op = "idle"
    /\ nextId <= MaxStreams
    /\ LET m == ConnectBegin(Self, nextId) IN
        /\ Install(m)
        /\ out' = Out("connect", "pending", None, m, NoWrite, <<>>, <<>>)
    /\ pc' = [pc EXCEPT ![t] = Pos("connect", nextId, SessionResumption(Self), NoStream)]
    /\ nextId' = nextId + 1
    /\ UNCHANGED <<held, proxyVars, toolVars, opened, turn>>

\* self.client.aio.live.connect(...) itself raises: no context is stored,
\* connect() returns False without having awaited
ConnectCallRaised(t) ==
    /\ pc[t].op = "idle"
    /\ LET m == ConnectFailed(SetState(Self, CONNECTING)) IN
        /\ Install(m)
        /\ out' = Out("connect", "false", "raised", m, NoWrite, <<>>, <<>>)
    /\ UNCHANGED <<held, proxyVars, toolVars, opened, nextId, pc, turn>>

\* __aenter__ returns the stream: connect() returns True
ConnectOk(t) ==
    /\ pc[t].op = "connect"
    /\ LET m == ConnectEntered(Self, pc[t].ctx) IN
        /\ Install(m)
        /\ out' = Out("connect", "true", "returned", m, NoWrite, <<>>, <<>>)
    /\ opened' = opened \cup {pc[t].ctx}
    /\ pc' = [pc EXCEPT ![t] = Idle]
    /\ UNCHANGED <<held, proxyVars, toolVars, nextId, turn>>

\* __aenter__ raises: connect() returns False
ConnectFail(t) ==
    /\ pc[t].op = "connect"
    /\ LET m == ConnectFailed(Self) IN
        /\ Install(m)
        /\ out' = Out("connect", "false", "raised", m, NoWrite, <<>>, <<>>)
    /\ pc' = [pc EXCEPT ![t] = Idle]
    /\ UNCHANGED <<held, proxyVars, toolVars, opened, nextId, turn>>

\* --------------------------------------------------------------- disconnect
\* a disconnect that does not look for a session
DisconnectGuardAlways(m) == TRUE

\* `if self._session and hasattr(self, '_session_context')`
DisconnectGuard(m) == m.session # NoStream

\* disconnect(), up to `await self._session_context.__aexit__(...)`
DisconnectBegin(m) == SetState(m, CLOSING)

\* disconnect(), the finally branch
DisconnectFinally(m) ==
    SetState([m EXCEPT !.session = NoStream, !.session_context = NoStream], CLOSED)

\* disconnect() with no await taken: the guard is false, or the context is None
\* and the AttributeError of None.__aexit__ is caught
DisconnectSync(m) ==
    IF DisconnectGuard(m) THEN DisconnectFinally(DisconnectBegin(m)) ELSE m

DisconnectCall(t) ==
    /\ pc[t].op = "idle"
    /\ IF DisconnectGuard(Self) /\ session_context # NoStream
       THEN LET m == DisconnectBegin(Self) IN
            /\ Install(m)
            /\ out' = Out("disconnect", "pending", None, m, NoWrite, <<>>, <<>>)
            /\ pc' = [pc EXCEPT ![t] = Pos("disconnect", session_context, None, NoStream)]
       ELSE LET m == DisconnectSync(Self) IN
            /\ Install(m)
            /\ out' = Out("disconnect", "ok", None, m, NoWrite, <<>>, <<>>)
            /\ pc' = pc
    /\ UNCHANGED <<held, proxyVars, toolVars, opened, nextId, turn>>

\* __aexit__ returns
DisconnectExited(t) ==
    /\ pc[t].op = "disconnect"
    /\ LET m == DisconnectFinally(Self) IN
        /\ Install(m)
        /\ out' = Out("disconnect", "ok", "returned", m, NoWrite, <<>>, <<>>)
    /\ opened' = opened \ {pc[t].ctx}
    /\ pc' = [pc EXCEPT ![t] = Idle]
    /\ UNCHANGED <<held, proxyVars, toolVars, nextId, turn>>

\* __aexit__ raises: the exception is printed, the finally branch runs
DisconnectExitRaised(t) ==
    /\ pc[t].op = "disconnect"
    /\ LET m == DisconnectFinally(Self) IN
        /\ Install(m)
        /\ out' = Out("disconnect", "ok", "raised", m, NoWrite, <<>>, <<>>)
    /\ opened' = opened \ {pc[t].ctx}
    /\ pc' = [pc EXCEPT ![t] = Idle]
    /\ UNCHANGED <<held, proxyVars, toolVars, nextId, turn>>

\* --------------------------------------------------------------------- send
\* a guard that forgets is_connected
SendGuardHandleOnly(m) == m.session # NoStream

\* the condition under which send_text / send_audio / send_tool_response go on:
\* the negation of `not self.is_connected or not self._session`
SendGuard(m) == IsConnected(m) /\ m.session # NoStream

\* the entry send_text appends
Entry(text) == [role |-> "user", content |-> text, type |-> "text"]

\* a send_text that does not track what it sent
SendTextDoneUntracked(m, text) == m

\* send_text after `await self._session.send_client_content(...)` returned
SendTextDone(m, text) ==
    [m EXCEPT !.conversation_history = Append(@, Entry(text))]
\* send_audio after `await self._session.send_realtime_input(...)` returned
SendAudioDone(m, data) == m
\* send_tool_response after `await self._session.send_tool_response(...)` returned
SendToolResponseDone(m, responses) == m

\* the send_text calls suspended at their await
TextsInFlight == Cardinality({u \in Tasks : pc[u].op = "send_text"})

\* a send call up to its await: RuntimeError("Session not connected"), or the
\* SDK call on the current stream
SendCall(t, op, payload) ==
    /\ pc[t].op = "idle"
    /\ IF SendGuard(Self)
       THEN /\ pc' = [pc EXCEPT ![t] = Pos(op, session, payload, NoStream)]
            /\ out' = Out(op, "pending", None, Self, NoWrite, <<>>, <<>>)
       ELSE /\ pc' = pc
            /\ out' = Out(op, "not_connected", None, Self, NoWrite, <<>>, <<>>)
    /\ UNCHANGED <<held, proxyVars, toolVars, mgrVars, opened, nextId, turn>>

SendTextCall(t) ==
    /\ SendGuard(Self) => Len(conversation_history) + TextsInFlight < MaxHistory
    /\ \E text \in Texts : SendCall(t, "send_text", text)

SendAudioCall(t) == \E data \in AudioData : SendCall(t, "send_audio", data)

SendToolResponseCall(t) ==
    \E responses \in ToolResponses : SendCall(t, "send_tool_response", responses)

\* the SDK call returns: the payload is written to the stream it was made on
SendReturned(t, op, m) ==
    /\ pc[t].op = op
    /\ Install(m)
    /\ out' = Out(op, "ok", "returned", m,
                  [stream |-> pc[t].ctx, kind |-> op, payload |-> pc[t].payload], <<>>, <<>>)
    /\ pc' = [pc EXCEPT ![t] = Idle]
    /\ UNCHANGED <<held, proxyVars, toolVars, opened, nextId, turn>>

SendTextOk(t) == SendReturned(t, "send_text", SendTextDone(Self, pc[t].payload))
SendAudioOk(t) == SendReturned(t, "send_audio", SendAudioDone(Self, pc[t].payload))
SendToolResponseOk(t) ==
    SendReturned(t, "send_tool_response", SendToolResponseDone(Self, pc[t].payload))

\* the SDK call raises: the exception leaves the send call
SendRaised(t) ==
    /\ pc[t].op \in {"send_text", "send_audio", "send_tool_response"}
    /\ out' = Out(pc[t].op, "raised", "raised", Self, NoWrite, <<>>, <<>>)
    /\ pc' = [pc EXCEPT ![t] = Idle]
    /\ UNCHANGED <<held, proxyVars, toolVars, mgrVars, opened, nextId, turn>>

\* ------------------------------------------------------------------- resume
\* a resume that does not look at the state
ResumeBodyUnguarded(m) == SetState(m, CONNECTED)

ResumeBody(m) == IF m.state = INTERRUPTED THEN SetState(m, CONNECTED) ELSE m

Resume(t) ==
    /\ pc[t].op = "idle"
    /\ LET m == ResumeBody(Self) IN
        /\ Install(m)
        /\ out' = Out("resume", "ok", None, m, NoWrite, <<>>, <<>>)
    /\ UNCHANGED <<held, proxyVars, toolVars, opened, nextId, pc, turn>>

\* -------------------------------------------------------------------- reset
\* reset(), between `await self.disconnect()` and `await self.connect()`
ResetClear(m) == [m EXCEPT !.conversation_history = <<>>, !.resumption_token = None]

\* reset() from the return of its disconnect() to the await of its connect()
ResetReconnect(m, ctx) == ConnectBegin(ResetClear(m), ctx)

\* reset() up to its first await: that of disconnect() if it has one to make,
\* else that of connect()
ResetCall(t) ==
    /\ pc[t].op = "idle"
    /\ nextId <= MaxStreams
    /\ IF DisconnectGuard(Self) /\ session_context # NoStream
       THEN LET m == DisconnectBegin(Self) IN
            /\ Install(m)
            /\ out' = Out("reset", "pending", None, m, NoWrite, <<>>, <<>>)
            /\ pc' = [pc EXCEPT ![t] = Pos("reset_disconnect", session_context, None, nextId)]
       ELSE LET m == ResetReconnect(DisconnectSync(Self), nextId) IN
            /\ Install(m)
            /\ out' = Out("reset", "pending", None, m, NoWrite, <<>>, <<>>)
            /\ pc' = [pc EXCEPT ![t] = Pos("reset_connect", nextId, None, nextId)]
    /\ nextId' = nextId + 1
    /\ UNCHANGED <<held, proxyVars, toolVars, opened, turn>>

\* reset() from the return of its disconnect() on when
\* self.client.aio.live.connect(...) itself raises: connect() stores no
\* context and returns False without having awaited
ResetConnectRaised(m) == ConnectFailed(SetState(ResetClear(m), CONNECTING))

\* reset() with no await at all: disconnect() has none to make and
\* client.aio.live.connect(...) raises; reset() returns
ResetCallRaised(t) ==
    /\ pc[t].op = "idle"
    /\ ~(DisconnectGuard(Self) /\ session_context # NoStream)
    /\ LET m == ResetConnectRaised(DisconnectSync(Self)) IN
        /\ Install(m)
        /\ out' = Out("reset", "ok", "raised", m, NoWrite, <<>>, <<>>)
    /\ UNCHANGED <<held, proxyVars, toolVars, opened, nextId, pc, turn>>

\* the __aexit__ of reset's disconnect() returns or raises: disconnect() ends,
\* the history and the token are cleared, connect() starts
ResetExited(t) ==
    /\ pc[t].op = "reset_disconnect"
    /\ \E sdk \in {"returned", "raised"} :
        LET m == ResetReconnect(DisconnectFinally(Self), pc[t].new) IN
        /\ Install(m)
        /\ out' = Out("reset", "pending", sdk, m, NoWrite, <<>>, <<>>)
    /\ opened' = opened \ {pc[t].ctx}
    /\ pc' = [pc EXCEPT ![t] = Pos("reset_connect", pc[t].new, None, pc[t].new)]
    /\ UNCHANGED <<held, proxyVars, toolVars, nextId, turn>>

\* the __aexit__ of reset's disconnect() returns or raises, and
\* client.aio.live.connect(...) raises: reset() returns
ResetExitedRaised(t) ==
    /\ pc[t].op = "reset_disconnect"
    /\ LET m == ResetConnectRaised(DisconnectFinally(Self)) IN
        /\ Install(m)
        /\ out' = Out("reset", "ok", "raised", m, NoWrite, <<>>, <<>>)
    /\ opened' = opened \ {pc[t].ctx}
    /\ pc' = [pc EXCEPT ![t] = Idle]
    /\ UNCHANGED <<held, proxyVars, toolVars, nextId, turn>>

\* the __aenter__ of reset's connect() returns: reset() returns
ResetConnectOk(t) ==
    /\ pc[t].op = "reset_connect"
    /\ LET m == ConnectEntered(Self, pc[t].ctx) IN
        /\ Install(m)
        /\ out' = Out("reset", "ok", "returned", m, NoWrite, <<>>, <<>>)
    /\ opened' = opened \cup {pc[t].ctx}
    /\ pc' = [pc EXCEPT ![t] = Idle]
    /\ UNCHANGED <<held, proxyVars, toolVars, nextId, turn>>

\* the __aenter__ of reset's connect() raises: connect() returns False, which
\* reset() drops
ResetConnectFail(t) ==
    /\ pc[t].op = "reset_connect"
    /\ LET m == ConnectFailed(Self) IN
        /\ Install(m)
        /\ out' = Out("reset", "ok", "raised", m, NoWrite, <<>>, <<>>)
    /\ pc' = [pc EXCEPT ![t] = Idle]
    /\ UNCHANGED <<held, proxyVars, toolVars, opened, nextId, turn>>

\* ------------------------------------------------- get_conversation_history
\* A list object in the hands of a caller: whether it is the manager's own
\* list (same) or a list of its own with these items, and whether the caller
\* has changed it since it got it.

\* a get_conversation_history that hands out the manager's own list
GetConversationHistoryOwnList(m) == [same |-> TRUE, items |-> <<>>, changed |-> FALSE]

\* get_conversation_history: `self._conversation_history.copy()`, a new list
\* with the entries in their order
GetConversationHistory(m) ==
    [same |-> FALSE, items |-> m.conversation_history, changed |-> FALSE]

\* what the list the caller holds contains
HeldItems ==
    IF held = <<>> THEN <<>>
    ELSE IF held[1].same THEN conversation_history ELSE held[1].items

\* what a caller can do to a list: append, clear, pop, assign to an item
ListChanges(items) ==
    {Append(items, Entry("Mine")), <<>>}
        \cup (IF items = <<>> THEN {}
              ELSE {SubSeq(items, 1, Len(items) - 1), [items EXCEPT ![1] = Entry("Mine")]})

\* a call of get_conversation_history(); it has no await and may come between
\* any two steps
GetConversationHistoryCall ==
    /\ held' = <<GetConversationHistory(Self)>>
    /\ out' = Out("get_conversation_history", "ok", None, Self, NoWrite, <<>>, <<>>)
    /\ UNCHANGED <<proxyVars, toolVars, mgrVars, opened, nextId, pc, turn>>

\* the caller changes the list it was given: a list that is the manager's own
\* changes for the manager too
CallerChangesList ==
    /\ held # <<>>
    /\ ~held[1].changed
    /\ \E new \in ListChanges(HeldItems) \ {HeldItems} :
        /\ Len(new) <= MaxHistory
        /\ IF held[1].same
           THEN /\ conversation_history' = new
                /\ held' = <<[held[1] EXCEPT !.changed = TRUE]>>
           ELSE /\ conversation_history' = conversation_history
                /\ held' = <<[held[1] EXCEPT !.items = new, !.changed = TRUE]>>
    /\ out' = Out("caller", "changed", None, Self, NoWrite, <<>>, <<>>)
    /\ UNCHANGED <<proxyVars, toolVars, state, session, session_context, resumption_token,
                   opened, nextId, pc, turn>>

\* ------------------------------------------------------------------ receive
\* the condition under which receive() goes on
ReceiveGuard(m) == m.state \in {CONNECTED, INTERRUPTED} /\ m.session # NoStream

\* a loop body that stores the token only while connected
ReceiveHandleTokenWhenConnected(m, response) ==
    LET m1 == IF response.interrupted THEN SetState(m, INTERRUPTED) ELSE m
    IN  IF response.update # NoUpdate /\ m.state = CONNECTED
        THEN [m1 EXCEPT !.resumption_token = response.update.value]
        ELSE m1

\* the body of `async for response in turn`, up to the yield
ReceiveHandle(m, response) ==
    LET m1 == IF response.interrupted THEN SetState(m, INTERRUPTED) ELSE m
    IN  IF response.update # NoUpdate
        THEN IF response.update.field = "token"
             THEN [m1 EXCEPT !.resumption_token = response.update.value]
             ELSE IF response.update.field = "resumption_token"
                  THEN [m1 EXCEPT !.resumption_token = response.update.value]
                  ELSE m1
        ELSE m1

\* `yield response`
ReceiveYield(response) == response

\* the first step of the generator: RuntimeError, or `turn = self._session.receive()`
ReceiveStart ==
    /\ turn = NoStream
    /\ IF ReceiveGuard(Self)
       THEN /\ turn' = session
            /\ out' = Out("receive", "pending", None, Self, NoWrite, <<>>, <<>>)
       ELSE /\ turn' = turn
            /\ out' = Out("receive", "not_connected", None, Self, NoWrite, <<>>, <<>>)
    /\ UNCHANGED <<held, proxyVars, toolVars, mgrVars, opened, nextId, pc>>

\* the stream hands over its next event, which is inspected and yielded; a
\* stream that was closed meanwhile may still hand over what it had buffered
ReceiveEvent ==
    /\ turn # NoStream
    /\ \E response \in Events :
        LET m == ReceiveHandle(Self, response) IN
        /\ Install(m)
        /\ out' = Out("receive", "yield", "returned", m, NoWrite,
                      <<response>>, <<ReceiveYield(response)>>)
    /\ UNCHANGED <<held, proxyVars, toolVars, opened, nextId, pc, turn>>

\* the stream's iteration ends: the generator returns
ReceiveEnd ==
    /\ turn # NoStream
    /\ turn' = NoStream
    /\ out' = Out("receive", "end", "returned", Self, NoWrite, <<>>, <<>>)
    /\ UNCHANGED <<held, proxyVars, toolVars, mgrVars, opened, nextId, pc>>

\* the stream raises: the exception leaves the generator
ReceiveRaised ==
    /\ turn # NoStream
    /\ turn' = NoStream
    /\ out' = Out("receive", "raised", "raised", Self, NoWrite, <<>>, <<>>)
    /\ UNCHANGED <<held, proxyVars, toolVars, mgrVars, opened, nextId, pc>>

\* the consumer leaves its `async for` (break): the generator is dropped
ReceiveClose ==
    /\ turn # NoStream
    /\ turn' = NoStream
    /\ out' = Out("receive", "closed", None, Self, NoWrite, <<>>, <<>>)
    /\ UNCHANGED <<held, proxyVars, toolVars, mgrVars, opened, nextId, pc>>

\* ------------------------------------------------------------ ToolExecutor
\* The names tools are registered and called under, the handlers, the
\* `parameters` argument of register_tool, the `args` of a call, and the ids the
\* model gives the calls of a batch (by position).
ToolNames == {"get_weather", "get_current_time"}
Handlers == {"h1", "h2"}
\* get_weather is declared with a schema and called with a city;
\* get_current_time is declared without one and called without arguments
Schema(name) == IF name = "get_weather" THEN "schema" ELSE None
CallArgs(name) == IF name = "get_weather" THEN "city" ELSE None
CallId(i) == IF i = 1 THEN "call-1" ELSE IF i = 2 THEN "call-2" ELSE "call-3"
FunctionCall(i, name) == [id |-> CallId(i), name |-> name, args |-> CallArgs(name)]

\* self.timeout of ToolExecutor(), in seconds, and how an f-string prints it
DefaultTimeout == 30
FormatSeconds(n) == IF n = 30 THEN "30.0" ELSE "?"

\* What a handler does once called: how it ends when left alone (ends), after
\* how many seconds (elapsed), and what it does when wait_for cancels it
\* (cancelled). "raises" is an exception of class Exception other than
\* TimeoutError, "raises_timeout" a TimeoutError of the handler's own (from a
\* wait_for or a socket inside it). A handler that is cancelled "stops" (the
\* CancelledError ends it; a handler in a thread is left behind), or it is a
\* coroutine that catches the CancelledError and "returns" a value or "raises".
\* A handler that ends before the timeout is never cancelled, and one that is
\* cancelled before it ends never ends on its own.
Durations == {1, 30, 60}
Runs ==
    {run \in [ends : {"returns", "raises", "raises_timeout"}, elapsed : Durations,
              cancelled : {"stops", "returns", "raises"}] :
        /\ run.elapsed < DefaultTimeout => run.cancelled = "stops"
        /\ run.elapsed > DefaultTimeout => run.ends = "returns"}
ErrorText == "boom"

\* the dict self._tools after construction
NoTools == [n \in {} |-> "h1"]

NoResponse == [id |-> None, name |-> None, response |-> [k \in {} |-> <<>>]]
NewSlot == [status |-> "new", func |-> None, response |-> NoResponse]
NoRun == [ends |-> None, elapsed |-> 0, cancelled |-> None]
\* A call of execute_tool or execute_multiple: the calls it was given, where
\* the execute_tool of each stands (slots), the order they completed in (done),
\* how the handler that ended last had run (ran) and what the call returned.
NoExec == [mode |-> "idle", phase |-> "idle", calls |-> <<>>, slots |-> <<>>,
           done |-> <<>>, ran |-> NoRun, returned |-> <<>>]

ExecutorInit ==
    /\ tools = NoTools
    /\ tool_declarations = <<>>
    /\ exec = NoExec

\* A LiveSession after construction: the client's websocket (client), whether
\* _receive_loop still runs (loop), whether it owes a resume() after an
\* interruption (resume_due), and the _handle_tool_calls it runs: where it
\* stands (phase: suspended in the send of its start frame, of a tool_result
\* frame or of its error frame, in a handler, in send_tool_response) or how
\* it ended (answered, failed), function_calls (calls), the index of the call
\* being executed (i) and its handler (func), `results`, the frames it has
\* written to the client while it runs (frames; the frames of each step are
\* in out.frames) and the text of the exception it caught (error).
NewLive ==
    [client |-> "CONNECTED", loop |-> "running", resume_due |-> FALSE,
     phase |-> "idle", calls |-> <<>>, i |-> 0, func |-> None, results |-> <<>>,
     frames |-> <<>>, error |-> None]

\* ---------------------------------------------- WebSocketProxyServer: values
\* the ids uuid4 hands out, one per accepted websocket
SessionIds == {"sid-a", "sid-b"}

\* SessionManager.__init__
NewManager ==
    [state |-> DISCONNECTED, session |-> NoStream, session_context |-> NoStream,
     resumption_token |-> None, conversation_history |-> <<>>, fired |-> <<>>]

\* no response of upstream: no audio, no text, no tool call, no flag, no update
NoResponseYet ==
    [data |-> "", text |-> None, tool_calls |-> 0, interrupted |-> FALSE,
     turn_complete |-> FALSE, update |-> NoUpdate]

\* A websocket handed to handle_client and the LiveSession built for it:
\* where handle_client stands (at), the fields of the LiveSession (session_id,
\* made: gemini_session is not None, m: the manager, is_active, turn_count,
\* tool_calls_count), the websocket (client), the _receive_loop task (loop), the
\* stream its receive() iterates (turn), the response whose loop body is
\* suspended at an await (response), the tool calls it still has to execute
\* (todo), the upstream streams entered and not exited (opened), the
\* next context the SDK creates (next), the argument and the stream of the
\* SDK call handle_client awaits (arg, ctx), what the running step has
\* written to the client (frames) and upstream (wrote) and the response it has
\* read from upstream (event); and what is recorded of the session
\* (recorded): nothing, or ("turns") the turn numbers of the turn_complete
\* frames the client was sent since the session was made or last reset
\* (completed), or ("frames") the responses _receive_loop has read (read) and
\* the types of the frames it has sent the client (log).
NewSession(sid) ==
    [at |-> "new", session_id |-> sid, made |-> FALSE, m |-> NewManager,
     is_active |-> FALSE, turn_count |-> 0, tool_calls_count |-> 0,
     client |-> "CONNECTED", loop |-> "none", turn |-> NoStream,
     response |-> NoResponseYet, todo |-> 0, batch |-> 0, lctx |-> NoStream,
     opened |-> {}, next |-> 1, arg |-> None, ctx |-> NoStream,
     frames |-> <<>>, wrote |-> <<>>, event |-> <<>>, recorded |-> "nothing", completed |-> <<>>, read |-> <<>>, log |-> <<>>,
     tasks |-> <<>>, changed |-> <<>>]

\* what the last step of the server did
NoStep ==
    [sid |-> None, op |-> "init", result |-> None, frames |-> <<>>, wrote |-> <<>>,
     fired |-> <<>>, event |-> <<>>, metrics |-> <<>>]

\* WebSocketProxyServer.__init__
ProxyInit ==
    /\ sessions = <<>>
    /\ conn = [sid \in SessionIds |-> NewSession(sid)]
    /\ did = NoStep

Init == ManagerInit /\ ExecutorInit /\ live = NewLive /\ ProxyInit

\* a response that carries both keys
FunctionResponseBothKeys(id, name, key, value) ==
    [id |-> id, name |-> name, response |-> [k \in {"result", "error"} |-> value]]

\* types.FunctionResponse(id=..., name=..., response={key: value})
FunctionResponse(id, name, key, value) ==
    [id |-> id, name |-> name, response |-> [k \in {key} |-> value]]

\* register_tool(name, description, parameters)(func): the declaration built
Declaration(name, parameters) ==
    IF parameters # None
    THEN [k \in {"name", "description", "parameters"} |->
            IF k = "name" THEN name ELSE IF k = "description" THEN "text" ELSE parameters]
    ELSE [k \in {"name", "description"} |-> IF k = "name" THEN name ELSE "text"]

\* self._tools[name] = func
SetItem(d, name, func) ==
    [n \in DOMAIN d \cup {name} |-> IF n = name THEN func ELSE d[n]]

\* a registration that declares nothing
KeepDeclarations(decls, name, parameters) == decls

\* self._tool_declarations.append(declaration)
AddDeclaration(decls, name, parameters) == Append(decls, Declaration(name, parameters))

\* get_tool_declarations()
GetToolDeclarations == <<[function_declarations |-> tool_declarations]>>

\* an unknown name answered without the name
UnknownFunctionUnnamed(call) ==
    [status |-> "done", func |-> None,
     response |-> [id |-> call.id, name |-> call.name,
                   response |-> [k \in {"error"} |-> <<"Unknown function: ", None>>]]]

\* execute_tool, the branch `func_name not in self._tools`
UnknownFunction(call) ==
    [status |-> "done", func |-> None,
     response |-> FunctionResponse(call.id, call.name, "error",
                                   <<"Unknown function: ", call.name>>)]

\* args = function_call.args or {}
ArgsOrEmpty(args) == IF args = None THEN "{}" ELSE args

\* what the handler func returns when called with **args
HandlerValue(func, args) == <<func, args>>

\* asyncio.wait_for(..., timeout): what the await gives for a handler run. At
\* the timeout it cancels the handler and waits for it to end: a handler that
\* stops gives TimeoutError, one that catches the cancellation gives what it
\* then returns or raises. A handler that ends just as the timeout passes is
\* either done or cancelled.
WaitFor(run, timeout) ==
    LET late == IF run.cancelled = "stops" THEN "timeout" ELSE run.cancelled
    IN  IF run.elapsed < timeout THEN {run.ends}
        ELSE IF run.elapsed > timeout THEN {late}
        ELSE {run.ends, late}

\* execute_tool, `return types.FunctionResponse(..., response={"result": result})`
HandlerReturned(call, func) ==
    [status |-> "done", func |-> func,
     response |-> FunctionResponse(call.id, call.name, "result",
                                   HandlerValue(func, ArgsOrEmpty(call.args)))]

\* execute_tool, `except asyncio.TimeoutError`
HandlerTimedOut(call, func, timeout) ==
    [status |-> "done", func |-> func,
     response |-> FunctionResponse(call.id, call.name, "error",
                     <<"Function execution timed out after ", FormatSeconds(timeout), "s">>)]

\* execute_tool, `except Exception as e`
HandlerFailed(call, func, text) ==
    [status |-> "done", func |-> func,
     response |-> FunctionResponse(call.id, call.name, "error",
                                   <<"Function execution failed: ", text>>)]

\* execute_tool from the await on: `got` is what wait_for gave
ExecuteToolDone(call, func, got) ==
    CASE got = "returns" -> HandlerReturned(call, func)
      [] got \in {"timeout", "raises_timeout"} -> HandlerTimedOut(call, func, DefaultTimeout)
      [] got = "raises" -> HandlerFailed(call, func, ErrorText)

\* execute_tool up to its first await: the lookup of the handler
ExecuteToolBegin(call, registry) ==
    IF call.name \notin DOMAIN registry
    THEN UnknownFunction(call)
    ELSE [NewSlot EXCEPT !.status = "running", !.func = registry[call.name]]

\* the results in the order the tasks completed
GatherAsCompleted(slots, done) == [i \in 1..Len(slots) |-> slots[done[i]].response]

\* asyncio.gather(*tasks): the results in the order of the tasks
Gather(slots, done) == [i \in 1..Len(slots) |-> slots[i].response]

\* `await execute_tool(...)`: the caller has the response in the step in which
\* the execute_tool ends. The execute_tool tasks of an execute_multiple end
\* with execute_multiple still waiting in gather.
Settle(e) ==
    IF e.mode = "single" /\ e.slots[1].status = "done"
    THEN [e EXCEPT !.phase = "returned", !.returned = <<e.slots[1].response>>]
    ELSE e

\* one execute_tool of the call moves to `slot`
Move(e, i, slot) ==
    Settle([e EXCEPT !.slots[i] = slot,
                     !.done = IF slot.status = "new" \/ slot.status = "running"
                              THEN @ ELSE Append(@, i)])

\* the batches of n calls
Batches(n) ==
    {[i \in 1..n |-> FunctionCall(i, f[i])] : f \in [1..n -> ToolNames]}

\* @executor.register_tool(name, description, parameters) applied to func
RegisterTool ==
    /\ Len(tool_declarations) < MaxRegistrations
    /\ \E name \in ToolNames, func \in Handlers :
        /\ tools' = SetItem(tools, name, func)
        /\ tool_declarations' = AddDeclaration(tool_declarations, name, Schema(name))
    /\ UNCHANGED <<held, proxyVars, sessVars, exec, live>>

\* await execute_tool(function_call): it runs to its first await at once
ExecuteToolCall ==
    /\ exec.phase # "running"
    /\ \E name \in ToolNames :
        exec' = Move([NoExec EXCEPT !.mode = "single", !.phase = "running",
                                    !.calls = <<FunctionCall(1, name)>>,
                                    !.slots = <<NewSlot>>],
                     1, ExecuteToolBegin(FunctionCall(1, name), tools))
    /\ UNCHANGED <<held, proxyVars, sessVars, tools, tool_declarations, live>>

\* await execute_multiple(function_calls): gather makes a task of each
\* execute_tool, and waits; the gather of no task is done already, and the
\* call returns at once
ExecuteMultipleCall ==
    /\ exec.phase # "running"
    /\ \E n \in 0..MaxBatch : \E calls \in Batches(n) :
        exec' = [NoExec EXCEPT !.mode = "multiple",
                               !.phase = IF n = 0 THEN "returned" ELSE "running",
                               !.calls = calls,
                               !.slots = [i \in 1..n |-> NewSlot]]
    /\ UNCHANGED <<held, proxyVars, sessVars, tools, tool_declarations, live>>

\* the task of the i-th call runs to its first await; the tasks start in the
\* order gather made them
ExecuteToolStarts ==
    /\ exec.phase = "running"
    /\ \E i \in 1..Len(exec.slots) :
        /\ exec.slots[i].status = "new"
        /\ \A j \in 1..(i - 1) : exec.slots[j].status # "new"
        /\ exec' = Move(exec, i, ExecuteToolBegin(exec.calls[i], tools))
    /\ UNCHANGED <<held, proxyVars, sessVars, tools, tool_declarations, live>>

\* the wait_for of the i-th call completes: the handler has ended, or the
\* timeout has passed and the cancelled handler has ended. `watched` says
\* whether exec.ran keeps how the handler had run.
ExecuteToolCompletes(watched) ==
    /\ exec.phase = "running"
    /\ \E i \in 1..Len(exec.slots) :
        /\ exec.slots[i].status = "running"
        /\ \E run \in Runs : \E got \in WaitFor(run, DefaultTimeout) :
            exec' = Move([exec EXCEPT !.ran = IF watched THEN run ELSE NoRun], i,
                         ExecuteToolDone(exec.calls[i], exec.slots[i].func, got))
    /\ UNCHANGED <<held, proxyVars, sessVars, tools, tool_declarations, live>>

\* every task of the gather has ended: execute_multiple wakes up and returns
\* the responses
ExecuteMultipleReturns ==
    /\ exec.mode = "multiple"
    /\ exec.phase = "running"
    /\ \A i \in 1..Len(exec.slots) : exec.slots[i].status = "done"
    /\ exec' = [exec EXCEPT !.phase = "returned", !.returned = Gather(exec.slots, exec.done)]
    /\ UNCHANGED <<held, proxyVars, sessVars, tools, tool_declarations, live>>

\* ------------------------------------------------------------- LiveSession
\* _setup_tools: the four tools a LiveSession registers, each name once, in
\* this order, and the `parameters` each is declared with
SetupNames == <<"get_weather", "get_forecast", "get_current_time", "get_time_difference">>
SetupHandler(name) ==
    CASE name = "get_weather" -> "h1"
      [] name = "get_current_time" -> "h2"
      [] name = "get_forecast" -> "h3"
      [] name = "get_time_difference" -> "h4"
SetupParameters(name) ==
    CASE name = "get_weather" -> "object: properties [city], required [city]"
      [] name = "get_forecast" -> "object: properties [city], required [city]"
      [] name = "get_current_time" -> "object: properties [timezone], required []"
      [] name = "get_time_difference" ->
            "object: properties [timezone1, timezone2], required [timezone1, timezone2]"

RECURSIVE SetupToolsUpTo(_)
SetupToolsUpTo(k) ==
    IF k = 0 THEN NoTools
    ELSE SetItem(SetupToolsUpTo(k - 1), SetupNames[k], SetupHandler(SetupNames[k]))
RECURSIVE SetupDeclarationsUpTo(_)
SetupDeclarationsUpTo(k) ==
    IF k = 0 THEN <<>>
    ELSE AddDeclaration(SetupDeclarationsUpTo(k - 1), SetupNames[k],
                        SetupParameters(SetupNames[k]))

SetupTools == SetupToolsUpTo(Len(SetupNames))
SetupDeclarations == SetupDeclarationsUpTo(Len(SetupNames))

\* the names upstream asks for: one that is registered, one that is not
AskedNames == {"get_weather", "google_search"}
ToolCalls(n) ==
    {[i \in 1..n |-> FunctionCall(i, f[i])] : f \in [1..n -> AskedNames]}

\* the responses with server content only: interrupted or not, no resumption
\* update
ContentEvents == {e \in Events : e.update = NoUpdate}
\* the text frame the client sends
ClientText == "Hello"

\* the frames of _handle_tool_calls
StartFrame(calls) ==
    [type |-> "tool_call_start",
     tools |-> [i \in 1..Len(calls) |->
                  [name |-> calls[i].name, args |-> ArgsOrEmpty(calls[i].args)]]]
ResultFrame(call, result) ==
    [type |-> "tool_result", tool |-> call.name, result |-> result.response]
ErrorFrame(text) == [type |-> "error", error |-> <<"Tool execution error: ", text>>]

\* a send that does not look at the websocket's state
SendToClientUnchecked(l, frame) == [l EXCEPT !.frames = Append(@, frame)]

\* _send_to_client: nothing is written unless the websocket is connected; a
\* send_json that raises (the client has gone) writes nothing and is swallowed
SendToClient(l, frame) ==
    IF l.client = "CONNECTED" THEN [l EXCEPT !.frames = Append(@, frame)] ELSE l

\* a loop that puts each result in front of the earlier ones
CollectInFront(l, result) == [l EXCEPT !.results = <<result>> \o @]

\* results.append(result)
Collect(l, result) == [l EXCEPT !.results = Append(@, result)]

\* `await self._send_to_client(frame)` inside _handle_tool_calls: where it
\* may leave the task.  Unless the websocket is connected it returns without
\* an await; else send_json has the frame and either returns at once (the
\* task goes on, see the callers) or suspends, with the task at `phase`
Suspended(l, frame, phase) ==
    IF l.client = "CONNECTED"
    THEN {[SendToClient(l, frame) EXCEPT !.phase = phase]}
    ELSE {}

\* _handle_tool_calls returns: its locals are gone; the exception it caught,
\* if any, is kept until the next one starts
Returned(l, how) ==
    [l EXCEPT !.phase = how, !.calls = <<>>, !.i = 0, !.func = None, !.results = <<>>]

\* the except branch of _handle_tool_calls for an exception that prints as
\* text: the error frame, whose send may suspend, then the return
Failed(l, text) ==
    LET l1 == [l EXCEPT !.error = text] IN
    Suspended(l1, ErrorFrame(text), "error")
        \cup {Returned(SendToClient(l1, ErrorFrame(text)), "failed")}

\* _handle_tool_calls past its loop, up to its next await: that of
\* send_tool_response, which raises RuntimeError when the manager is not
\* connected (connected is the manager's send guard)
Respond(l, connected) ==
    IF connected
    THEN {[l EXCEPT !.phase = "sending"]}
    ELSE Failed(l, "Session not connected")

\* _handle_tool_calls from a point of its `for fc in function_calls` loop up
\* to its next suspension or its return: the set of the places it can get to.
\* RunTools starts at the top of the loop with the call at l.i; an unknown
\* name is answered by execute_tool without an await, a known one awaits its
\* handler.  Collected starts where execute_tool has returned `result` for the
\* call at l.i: the result is appended and the tool_result frame sent, whose
\* send may suspend, then the loop goes on with the next call.
RECURSIVE RunTools(_, _, _), Collected(_, _, _, _)
RunTools(l, registry, connected) ==
    IF l.i > Len(l.calls)
    THEN Respond(l, connected)
    ELSE LET slot == ExecuteToolBegin(l.calls[l.i], registry) IN
         IF slot.status = "done"
         THEN Collected(l, slot.response, registry, connected)
         ELSE {[l EXCEPT !.phase = "executing", !.func = slot.func]}
Collected(l, result, registry, connected) ==
    LET l1 == [Collect(l, result) EXCEPT !.func = None]
        frame == ResultFrame(l.calls[l.i], result)
    IN  Suspended(l1, frame, "result")
            \cup RunTools([SendToClient(l1, frame) EXCEPT !.i = @ + 1], registry, connected)

\* _handle_tool_calls from its start: the tool_call_start frame, whose send
\* may suspend, then the loop
Started(l, calls, registry, connected) ==
    LET l1 == [l EXCEPT !.phase = "looping", !.calls = calls, !.i = 1, !.func = None,
                        !.results = <<>>, !.frames = <<>>, !.error = None]
    IN  Suspended(l1, StartFrame(calls), "start")
            \cup RunTools(SendToClient(l1, StartFrame(calls)), registry, connected)

\* _handle_tool_calls after a suspended send_json has returned (or raised,
\* which _send_to_client swallows)
Resumed(l, registry, connected) ==
    CASE l.phase = "start" -> RunTools(l, registry, connected)
      [] l.phase = "result" -> RunTools([l EXCEPT !.i = @ + 1], registry, connected)
      [] l.phase = "error" -> {Returned(l, "failed")}

\* the receive loop's task has got as far as l, one of the places
\* _handle_tool_calls can get to from where it was: suspended in a send_json
\* or in a handler, in send_tool_response (the SDK call is made on the current
\* stream), or returned after an exception
Proceed(l, received) ==
    LET written == SubSeq(l.frames, Len(live.frames) + 1, Len(l.frames)) IN
    /\ live' = IF l.phase \in {"answered", "failed"} THEN [l EXCEPT !.frames = <<>>] ELSE l
    /\ IF l.phase = "sending"
       THEN /\ pc' = [pc EXCEPT ![RecvLoop] =
                         Pos("send_tool_response", session, l.results, NoStream)]
            /\ out' = [Out("send_tool_response", "pending", None, Self, NoWrite, <<>>, <<>>)
                          EXCEPT !.frames = written]
       ELSE /\ pc' = [pc EXCEPT ![RecvLoop] = Idle]
            /\ out' = [IF l.error = "Session not connected" /\ live.phase # "error"
                       THEN Out("send_tool_response", "not_connected", None, Self,
                                NoWrite, <<>>, <<>>)
                       ELSE received
                          EXCEPT !.frames = written]

\* gemini_session.connect() has returned, with True or False: LiveSession.connect
\* goes on either way and starts _receive_loop
Serving == state # DISCONNECTED /\ pc[Inbound].op # "connect"

\* where handle_client is once it has left its while loop: in the manager's
\* disconnect(), in the send of the disconnected frame, or returned
TeardownOps == {"disconnect", "_send_to_client", "returned"}

\* self.is_active: set when gemini_session.connect() has returned, cleared by
\* LiveSession.disconnect
IsActive == Serving /\ pc[Inbound].op \notin TeardownOps

\* LiveSession.disconnect from the return of the manager's disconnect() on:
\* the disconnected frame, whose send may suspend, then handle_client
\* returns.  The positions handle_client can be at after the step
LiveDisconnected ==
    {Pos("returned", NoStream, None, NoStream)}
        \cup (IF live.client = "CONNECTED"
              THEN {Pos("_send_to_client", NoStream, "disconnected", NoStream)}
              ELSE {})

\* handle_client leaves its while loop in the step `op` (an exception of the
\* frame's handling or of receive_text, then break) and its finally calls
\* LiveSession.disconnect: is_active is cleared and the manager's
\* disconnect() runs to its await, or to its end if it has none to make
LiveDisconnect(t, op, result, sdk) ==
    IF DisconnectGuard(Self) /\ session_context # NoStream
    THEN LET m == DisconnectBegin(Self) IN
         /\ Install(m)
         /\ out' = Out(op, result, sdk, m, NoWrite, <<>>, <<>>)
         /\ pc' = [pc EXCEPT ![t] = Pos("disconnect", session_context, None, NoStream)]
    ELSE LET m == DisconnectSync(Self) IN
         /\ Install(m)
         /\ out' = Out(op, result, sdk, m, NoWrite, <<>>, <<>>)
         /\ \E pos \in LiveDisconnected : pc' = [pc EXCEPT ![t] = pos]

\* _receive_loop is at the top of its while loop or inside its async for,
\* not inside _handle_tool_calls and not about to call resume()
LoopReady ==
    /\ Serving
    /\ live.loop = "running"
    /\ live.phase \in {"idle", "answered", "failed"}
    /\ ~live.resume_due
    /\ pc[RecvLoop].op = "idle"

\* the top of `while self.is_active and self.gemini_session`: the loop is
\* over once LiveSession.disconnect has been called; else
\* `async for response in self.gemini_session.receive()`: the generator starts;
\* its RuntimeError ends the loop in the outer except
LoopReceive ==
    /\ LoopReady
    /\ turn = NoStream
    /\ IF ~IsActive
       THEN /\ turn' = turn
            /\ live' = [live EXCEPT !.loop = "ended"]
            /\ out' = Out("_receive_loop", "return", None, Self, NoWrite, <<>>, <<>>)
       ELSE IF ReceiveGuard(Self)
       THEN /\ turn' = session
            /\ live' = live
            /\ out' = Out("receive", "pending", None, Self, NoWrite, <<>>, <<>>)
       ELSE /\ turn' = turn
            /\ live' = [live EXCEPT !.loop = "ended"]
            /\ out' = Out("receive", "not_connected", None, Self, NoWrite, <<>>, <<>>)
    /\ UNCHANGED <<held, proxyVars, mgrVars, opened, nextId, pc, tools, tool_declarations, exec>>

\* a response without a tool call: content, an interruption (the interrupted
\* frame is written, resume() is due), a resumption update
LoopEvent(events) ==
    /\ LoopReady
    /\ turn # NoStream
    /\ \E response \in events :
        LET m == ReceiveHandle(Self, response) IN
        /\ Install(m)
        /\ live' = [live EXCEPT !.resume_due = response.interrupted]
        /\ out' = Out("receive", "yield", "returned", m, NoWrite,
                      <<response>>, <<ReceiveYield(response)>>)
    /\ UNCHANGED <<held, proxyVars, opened, nextId, pc, turn, tools, tool_declarations, exec>>

\* self.gemini_session.resume() after the interrupted frame
LoopResume ==
    /\ live.resume_due
    /\ LET m == ResumeBody(Self) IN
        /\ Install(m)
        /\ out' = Out("resume", "ok", None, m, NoWrite, <<>>, <<>>)
    /\ live' = [live EXCEPT !.resume_due = FALSE]
    /\ UNCHANGED <<held, proxyVars, opened, nextId, pc, turn, tools, tool_declarations, exec>>

\* a response with a tool call: _handle_tool_calls writes the tool_call_start
\* frame and enters its loop
LoopToolCall ==
    /\ LoopReady
    /\ turn # NoStream
    /\ \E n \in 1..MaxBatch : \E calls \in ToolCalls(n) :
        \E l \in Started(live, calls, tools, SendGuard(Self)) :
            Proceed(l, Out("receive", "yield", "returned", Self, NoWrite, <<>>, <<>>))
    /\ UNCHANGED <<held, proxyVars, mgrVars, opened, nextId, turn, tools, tool_declarations, exec>>

\* the execute_tool awaited by _handle_tool_calls completes, for any run of
\* the handler
LoopToolDone ==
    /\ live.phase = "executing"
    /\ \E got \in UNION {WaitFor(run, DefaultTimeout) : run \in Runs} :
        \E l \in Collected(live, ExecuteToolDone(live.calls[live.i], live.func, got).response,
                           tools, SendGuard(Self)) :
            Proceed(l, Out("execute_tool", "ok", None, Self, NoWrite, <<>>, <<>>))
    /\ UNCHANGED <<held, proxyVars, mgrVars, opened, nextId, turn, tools, tool_declarations, exec>>

\* a send_json that had suspended _handle_tool_calls returns: it goes on from
\* there
LoopSendReturns ==
    /\ live.phase \in {"start", "result", "error"}
    /\ \E l \in Resumed(live, tools, SendGuard(Self)) :
        Proceed(l, Out("_send_to_client", "ok", None, Self, NoWrite, <<>>, <<>>))
    /\ UNCHANGED <<held, proxyVars, mgrVars, opened, nextId, turn, tools, tool_declarations, exec>>

\* the SDK's send_tool_response returns: the results are written upstream
LoopToolResponseOk ==
    /\ live.phase = "sending"
    /\ pc[RecvLoop].op = "send_tool_response"
    /\ LET m == SendToolResponseDone(Self, pc[RecvLoop].payload) IN
        /\ Install(m)
        /\ out' = Out("send_tool_response", "ok", "returned", m,
                      [stream |-> pc[RecvLoop].ctx, kind |-> "send_tool_response",
                       payload |-> pc[RecvLoop].payload], <<>>, <<>>)
    /\ live' = [Returned(live, "answered") EXCEPT !.frames = <<>>]
    /\ pc' = [pc EXCEPT ![RecvLoop] = Idle]
    /\ UNCHANGED <<held, proxyVars, opened, nextId, turn, tools, tool_declarations, exec>>

\* the SDK's send_tool_response raises: the except branch writes the error
\* frame, whose send may suspend
LoopToolResponseRaised ==
    /\ live.phase = "sending"
    /\ pc[RecvLoop].op = "send_tool_response"
    /\ \E l \in Failed(live, "upstream") :
        Proceed(l, Out("send_tool_response", "raised", "raised", Self, NoWrite, <<>>, <<>>))
    /\ UNCHANGED <<held, proxyVars, mgrVars, opened, nextId, turn, tools, tool_declarations, exec>>

\* the async for ends: the stream's iteration is over, or turn_complete breaks
LoopTurnEnds ==
    /\ LoopReady
    /\ turn # NoStream
    /\ turn' = NoStream
    /\ out' = Out("receive", "end", "returned", Self, NoWrite, <<>>, <<>>)
    /\ UNCHANGED <<held, proxyVars, mgrVars, opened, nextId, pc, toolVars>>

\* the stream raises: the outer except ends the loop
LoopStreamRaised ==
    /\ LoopReady
    /\ turn # NoStream
    /\ turn' = NoStream
    /\ live' = [live EXCEPT !.loop = "ended"]
    /\ out' = Out("receive", "raised", "raised", Self, NoWrite, <<>>, <<>>)
    /\ UNCHANGED <<held, proxyVars, mgrVars, opened, nextId, pc, tools, tool_declarations, exec>>

\* the browser goes away: the websocket is no longer connected
ClientCloses ==
    /\ live.client = "CONNECTED"
    /\ live' = [live EXCEPT !.client = "DISCONNECTED"]
    /\ UNCHANGED <<held, proxyVars, sessVars, tools, tool_declarations, exec>>

\* ---------------------------------------------------- WebSocketProxyServer
\* The server of server/websocket_proxy.py: handle_client runs once per
\* accepted websocket, builds a LiveSession with a SessionManager of its own,
\* registers it, connects it, passes the client's frames on and tears it down;
\* the LiveSession's _receive_loop runs as a task of its own.  Both are cut
\* at the awaits of SDK calls and at the awaits of the websocket's send_json,
\* which may suspend the task or not: a frame is written when send_json is
\* called, and the task goes on in the same step or waits for the send to
\* return.  The state_change frames, each sent by a task of its own, are
\* written only where a session's recorded field asks for them (StateSpec).

\* the text frames a client sends: JSON objects with and without their payload,
\* JSON that is no object, and text that is no JSON, with and without hex digits
PingText == "{\"type\": \"ping\"}"
TextText == "{\"type\": \"text\", \"text\": \"Hello\"}"
TextNoPayload == "{\"type\": \"text\"}"
AudioText == "{\"type\": \"audio\", \"data\": \"12ab\"}"
AudioNotHex == "{\"type\": \"audio\", \"data\": \"zz\"}"
ResetText == "{\"type\": \"reset\"}"
UnknownText == "{\"type\": \"hello\"}"
RawHex == "12ab"
RawDigits == "1234"
RawWords == "hello"
InboundData == {PingText, TextText, TextNoPayload, AudioText, AudioNotHex, ResetText,
                UnknownText, RawHex, RawDigits, RawWords}

\* json.loads on these texts: a dict (with .get("type"), and None for a key
\* that is missing), a number, or JSONDecodeError
JsonDict(type, text, data) == [kind |-> "dict", type |-> type, text |-> text, data |-> data]
JsonLoads(data) ==
    CASE data = PingText -> JsonDict("ping", None, None)
      [] data = TextText -> JsonDict("text", "Hello", None)
      [] data = TextNoPayload -> JsonDict("text", None, None)
      [] data = AudioText -> JsonDict("audio", None, "12ab")
      [] data = AudioNotHex -> JsonDict("audio", None, "zz")
      [] data = ResetText -> JsonDict("reset", None, None)
      [] data = UnknownText -> JsonDict("hello", None, None)
      [] data = RawDigits -> [kind |-> "int", type |-> None, text |-> None, data |-> None]
      [] OTHER -> [kind |-> "JSONDecodeError", type |-> None, text |-> None, data |-> None]

\* bytes.fromhex: the bytes, written as Python prints them, or ValueError
FromHex(h) ==
    CASE h = "12ab" -> [ok |-> TRUE, bytes |-> "\\x12\\xab"]
      [] h = "1234" -> [ok |-> TRUE, bytes |-> "\\x124"]
      [] OTHER -> [ok |-> FALSE, bytes |-> ""]

\* bytes.hex
Hex(b) ==
    CASE b = "\\x12\\xab" -> "12ab"
      [] b = "\\x124" -> "1234"
      [] OTHER -> ""

\* the responses upstream hands over: audio, text, a tool call with n function
\* calls, an interruption, the end of the turn, a resumption update; a
\* response carries one of them
NoEvent == NoResponseYet
AudioEvent == [NoEvent EXCEPT !.data = "\\x12\\xab"]
TextEvent == [NoEvent EXCEPT !.text = "Hi"]
ToolCallEvent(n) == [NoEvent EXCEPT !.tool_calls = n]
InterruptedEvent == [NoEvent EXCEPT !.interrupted = TRUE]
TurnCompleteEvent == [NoEvent EXCEPT !.turn_complete = TRUE]
UpdateEvent == [NoEvent EXCEPT !.update = [field |-> "token", value |-> "tok1"]]
\* responses that carry several parts, and one that carries them all
AudioTextEvent == [AudioEvent EXCEPT !.text = "Hi"]
InterruptedTurnCompleteEvent == [InterruptedEvent EXCEPT !.turn_complete = TRUE]
FullEvent(n) == [AudioTextEvent EXCEPT !.tool_calls = n, !.interrupted = TRUE,
                                       !.turn_complete = TRUE]
CombinedEvents ==
    {AudioEvent, TextEvent, InterruptedEvent, TurnCompleteEvent, ToolCallEvent(1),
     AudioTextEvent, InterruptedTurnCompleteEvent}
        \cup {FullEvent(n) : n \in 1..MaxBatch}
UpstreamEvents ==
    {AudioEvent, TextEvent, InterruptedEvent, TurnCompleteEvent, UpdateEvent}
        \cup {ToolCallEvent(n) : n \in 1..MaxBatch}

\* the function calls of a tool call, and what execute_tool can return for
\* one of them: the FunctionResponse for each way the handler's wait_for ends
AskedCalls(n) == [i \in 1..n |-> FunctionCall(i, "get_weather")]
ToolResult(call) ==
    {ExecuteToolDone(call, SetupTools[call.name], got).response :
        got \in UNION {WaitFor(run, DefaultTimeout) : run \in Runs}}

\* the frames of LiveSession
ConnectedFrame(sid) == [type |-> "connected", session_id |-> sid, state |-> "connected"]
ConnectionFailedFrame(text) == [type |-> "error", error |-> <<"Connection failed: ", text>>]
DisconnectedFrame(sid) == [type |-> "disconnected", session_id |-> sid]
SessionResetFrame(sid) == [type |-> "session_reset", session_id |-> sid]
AudioFrame(h) == [type |-> "audio", data |-> h]
TextFrame(text) == [type |-> "text", text |-> text]
InterruptedFrame == [type |-> "interrupted"]
TurnCompleteFrame(n) == [type |-> "turn_complete", turn_number |-> n]
ReceiveLoopErrorFrame(text) == [type |-> "error", error |-> <<"Receive loop error: ", text>>]
PongFrame == [type |-> "pong"]

\* what a step leaves behind: the frames and writes of a step are its own
Stored(c) == [c EXCEPT !.frames = <<>>, !.wrote = <<>>, !.event = <<>>, !.m.fired = <<>>]

\* the turn numbers of the turn_complete frames among `frames`
TurnNumbers(frames) ==
    LET done == SelectSeq(frames, LAMBDA f : f.type = "turn_complete")
    IN  [i \in 1..Len(done) |-> done[i].turn_number]

\* the steps of the _receive_loop task
\* the frame _on_state_change makes of a state
StateChangeFrame(new_state) == [type |-> "state_change", state |-> new_state]

OnStateChangeLatestFirst(tasks, new_state) == <<StateChangeFrame(new_state)>> \o tasks

\* LiveSession._on_state_change: asyncio.create_task(_send_to_client(frame)).
\* tasks is the event loop's queue of the tasks so created that have not run
\* yet; the loop runs ready tasks in the order they were created
OnStateChange(tasks, new_state) == Append(tasks, StateChangeFrame(new_state))

\* the manager calls the callback once for each state it fired, in order
RECURSIVE OnStateChanges(_, _)
OnStateChanges(tasks, fired) ==
    IF fired = <<>> THEN tasks
    ELSE OnStateChanges(OnStateChange(tasks, Head(fired)), Tail(fired))

\* the states a manager that was in state was has passed into, given the values
\* _set_state was called back with
RECURSIVE Changes(_, _)
Changes(was, fired) ==
    IF fired = <<>> THEN <<>>
    ELSE IF Head(fired) = was THEN Changes(was, Tail(fired))
    ELSE <<Head(fired)>> \o Changes(Head(fired), Tail(fired))

\* the states carried by the state_change frames among frames
StatesSent(frames) ==
    LET sc == SelectSeq(frames, LAMBDA f : f.type = "state_change")
    IN  [i \in 1..Len(sc) |-> sc[i].state]

LoopOps == {"_receive_loop", "resume", "execute_tool", "send_tool_response"}

\* what is recorded of the step `op`.  The record of the turn_complete frames
\* starts anew with the session_reset frame, written when reset_session has
\* set the counters to 0; the record of the loop's frames has the types of
\* the frames in the order they were sent.
Noted(before, c, op) ==
    CASE c.recorded = "states" ->
            [c EXCEPT !.tasks = OnStateChanges(@, c.m.fired),
                      !.changed = @ \o Changes(before.m.state, c.m.fired),
                      !.read = IF op \in LoopOps THEN @ \o c.event ELSE @,
                      !.log = @ \o StatesSent(c.frames)]
      [] c.recorded = "turns" ->
            [c EXCEPT !.completed =
                IF \E i \in 1..Len(c.frames) : c.frames[i].type = "session_reset"
                THEN <<>>
                ELSE @ \o TurnNumbers(c.frames)]
      [] c.recorded = "frames" /\ op \in LoopOps ->
            [c EXCEPT !.read = @ \o c.event,
                      !.log = @ \o [i \in 1..Len(c.frames) |-> c.frames[i].type]]
      [] OTHER -> c

\* a step of the websocket whose session id is s, ending with the LiveSession c
Step(s, op, result, c) ==
    /\ conn' = [conn EXCEPT ![s] = Stored(Noted(conn[s], c, op))]
    /\ did' = [sid |-> s, op |-> op, result |-> result, frames |-> c.frames,
               wrote |-> c.wrote, fired |-> c.m.fired, event |-> c.event,
               metrics |-> <<>>]
    /\ UNCHANGED <<held, sessVars, toolVars>>

\* `self.sessions[session_id] = session` and `del self.sessions[session_id]`
Register(reg, sid) == Append(reg, sid)
DeregisterAll(reg, sid) == <<>>
Deregister(reg, sid) == SelectSeq(reg, LAMBDA x : x # sid)
Registered == {sessions[i] : i \in 1..Len(sessions)}

\* a send_json awaited by handle_client suspends it: the frame is written and
\* the task waits at pos.  Only a websocket that is connected is written to.
ClientSuspended(c, frame, pos) ==
    IF c.client = "CONNECTED" THEN {[SendToClient(c, frame) EXCEPT !.at = pos]} ELSE {}

\* the same in _receive_loop
LoopSuspended(c, frame, pos) ==
    IF c.client = "CONNECTED" THEN {[SendToClient(c, frame) EXCEPT !.loop = pos]} ELSE {}

\* ------------------------------------------------ LiveSession.disconnect
\* the rest of LiveSession.disconnect once the manager's disconnect returned:
\* the disconnected frame; handle_client's finally then drops the session
TeardownEnd(c) ==
    ClientSuspended(c, DisconnectedFrame(c.session_id), "bye")
        \cup {[SendToClient(c, DisconnectedFrame(c.session_id)) EXCEPT !.at = "done"]}

\* handle_client's finally: LiveSession.disconnect, up to the await of the
\* manager's __aexit__ or, if the manager has no session, to the end
Teardown(c) ==
    LET c1 == [c EXCEPT !.is_active = FALSE] IN
    IF c1.made /\ DisconnectGuard(c1.m) /\ c1.m.session_context # NoStream
    THEN {[c1 EXCEPT !.m = DisconnectBegin(@), !.at = "closing",
                     !.ctx = c1.m.session_context]}
    ELSE TeardownEnd([c1 EXCEPT !.m = IF c1.made THEN DisconnectSync(@) ELSE @])

\* handle_client's `except Exception: ... break`: an exception of the frame's
\* handling ends the loop and the finally runs
Handled(c) == IF c.at = "raised" THEN Teardown(c) ELSE {c}

\* a finally that leaves the registry alone
RegistryKept(reg, c) == reg

\* the registry after a step of handle_client that ended with c
Registry(reg, c) == IF c.at = "done" THEN Deregister(reg, c.session_id) ELSE reg

\* --------------------------------------------------- LiveSession.connect
\* the end of LiveSession.connect: the receive loop is started and
\* handle_client reads frames
LiveServing(c) == [c EXCEPT !.loop = "top", !.at = "serving"]

\* LiveSession.connect after `await self.gemini_session.connect()` returned,
\* True or False: the session is active, the connected frame is written, then
\* the end of connect
LiveConnected(c) ==
    LET c1 == [c EXCEPT !.is_active = TRUE] IN
    ClientSuspended(c1, ConnectedFrame(c.session_id), "hello")
        \cup {LiveServing(SendToClient(c1, ConnectedFrame(c.session_id)))}

\* LiveSession.connect when building the client raises: the error frame, then
\* the exception goes on to handle_client
LiveConnectRaised(c) ==
    ClientSuspended(c, ConnectionFailedFrame("client"), "failed")
        \cup {[SendToClient(c, ConnectionFailedFrame("client")) EXCEPT !.at = "raised"]}

\* --------------------------------------------- LiveSession.reset_session
\* a reset_session that leaves the counters as they are
ResetDoneKeepsCounters(c) ==
    ClientSuspended(c, SessionResetFrame(c.session_id), "reset_sent")
        \cup {[SendToClient(c, SessionResetFrame(c.session_id)) EXCEPT !.at = "serving"]}

\* reset_session after the manager's reset returned: the counters are set to
\* 0 and the session_reset frame is written
ResetDone(c) ==
    LET c1 == [c EXCEPT !.turn_count = 0, !.tool_calls_count = 0] IN
    ClientSuspended(c1, SessionResetFrame(c.session_id), "reset_sent")
        \cup {[SendToClient(c1, SessionResetFrame(c.session_id)) EXCEPT !.at = "serving"]}

\* the manager's reset after its disconnect returned, up to the await of
\* __aenter__
ResetReconnects(c) ==
    [c EXCEPT !.m = ResetReconnect(@, c.next), !.at = "reset_connect",
              !.ctx = c.next, !.next = @ + 1]

\* reset_session up to the first await of the manager's reset
ResetSession(c) ==
    IF ~c.made THEN c
    ELSE IF DisconnectGuard(c.m) /\ c.m.session_context # NoStream
    THEN [c EXCEPT !.m = DisconnectBegin(@), !.at = "reset_disconnect",
                   !.ctx = c.m.session_context]
    ELSE ResetReconnects([c EXCEPT !.m = DisconnectSync(@)])

\* the pong frame of _handle_message
Pong(c) == ClientSuspended(c, PongFrame, "pong") \cup {SendToClient(c, PongFrame)}

\* ------------------------------------------------------- _handle_message
\* LiveSession.send_text / send_audio up to the await of the SDK call: nothing
\* unless there is an active manager; the manager raises unless connected
LiveSend(c, op, payload) ==
    IF c.made /\ c.is_active
    THEN IF SendGuard(c.m)
         THEN [c EXCEPT !.at = op, !.arg = payload, !.ctx = c.m.session]
         ELSE [c EXCEPT !.at = "raised"]
    ELSE c

\* _handle_message for a dict: the KeyError of a missing payload and the
\* ValueError of bytes.fromhex go on to handle_client
HandleMessage(c, message) ==
    CASE message.type = "audio" ->
            IF message.data = None \/ ~FromHex(message.data).ok
            THEN {[c EXCEPT !.at = "raised"]}
            ELSE {LiveSend(c, "send_audio", FromHex(message.data).bytes)}
      [] message.type = "text" ->
            IF message.text = None
            THEN {[c EXCEPT !.at = "raised"]}
            ELSE {LiveSend(c, "send_text", message.text)}
      [] message.type = "reset" -> {ResetSession(c)}
      [] message.type = "ping" -> Pong(c)
      [] OTHER -> {c}

\* the body of handle_client's loop for the text `data`: json.loads, then
\* _handle_message (AttributeError of .get unless the value is a dict), or
\* after JSONDecodeError the text is taken as hex audio
HandleText(c, data) ==
    LET message == JsonLoads(data) IN
    IF message.kind = "JSONDecodeError"
    THEN IF FromHex(data).ok
         THEN {LiveSend(c, "send_audio", FromHex(data).bytes)}
         ELSE {[c EXCEPT !.at = "raised"]}
    ELSE IF message.kind = "dict"
    THEN HandleMessage(c, message)
    ELSE {[c EXCEPT !.at = "raised"]}

\* the outcomes of a step of handle_client that got as far as one of cs
AllHandled(cs) == UNION {Handled(c) : c \in cs}

\* --------------------------------------------------------- _receive_loop
\* the outer except of _receive_loop: the error frame, and the task is over
LoopCrashed(c, text) ==
    LET c1 == [c EXCEPT !.turn = NoStream] IN
    LoopSuspended(c1, ReceiveLoopErrorFrame(text), "crash")
        \cup {[SendToClient(c1, ReceiveLoopErrorFrame(text)) EXCEPT !.loop = "crashed"]}

\* a loop that starts its next turn without counting it
LoopTopKeepsCount(c) ==
    IF c.is_active /\ c.made
    THEN IF ReceiveGuard(c.m)
         THEN {[c EXCEPT !.loop = "streaming", !.turn = c.m.session]}
         ELSE LoopCrashed(c, "Session not connected")
    ELSE {[c EXCEPT !.loop = "ended"]}

\* the top of `while self.is_active and self.gemini_session`, up to the first
\* await of receive(): RuntimeError unless the manager can receive
LoopTop(c) ==
    IF c.is_active /\ c.made
    THEN LET c1 == [c EXCEPT !.turn_count = @ + 1] IN
         IF ReceiveGuard(c1.m)
         THEN {[c1 EXCEPT !.loop = "streaming", !.turn = c1.m.session]}
         ELSE LoopCrashed(c1, "Session not connected")
    ELSE {[c EXCEPT !.loop = "ended"]}

\* `break` after the turn_complete frame
LoopBreak(c) == [c EXCEPT !.loop = "top", !.turn = NoStream, !.response = NoResponseYet]

\* the end of the body of the async for: the turn_complete frame and the
\* break, or the next response
LoopEnd(c, response) ==
    IF response.turn_complete
    THEN LoopSuspended(c, TurnCompleteFrame(c.turn_count), "turn_complete")
            \cup {LoopBreak(SendToClient(c, TurnCompleteFrame(c.turn_count)))}
    ELSE {[c EXCEPT !.loop = "streaming", !.response = NoResponseYet]}

\* self.gemini_session.resume() after the interrupted frame, then the end of
\* the body
LoopResumed(c, response) == LoopEnd([c EXCEPT !.m = ResumeBody(@)], response)

\* the body of the async for past the tool calls: the interrupted frame and
\* resume(), then the end of the body
LoopTail(c, response) ==
    IF response.interrupted
    THEN LoopSuspended(c, InterruptedFrame, "resume")
            \cup LoopResumed(SendToClient(c, InterruptedFrame), response)
    ELSE LoopEnd(c, response)

\* _handle_tool_calls fails: the error frame, and the loop body goes on
ToolsFailed(c, text) ==
    LET c1 == [c EXCEPT !.todo = 0, !.batch = 0] IN
    LoopSuspended(c1, ErrorFrame(text), "tool_error")
        \cup LoopTail(SendToClient(c1, ErrorFrame(text)), c.response)

\* _handle_tool_calls past its loop: send_tool_response raises unless the
\* manager is connected
ToolsRespond(c) ==
    IF SendGuard(c.m)
    THEN {[c EXCEPT !.loop = "toolsend", !.lctx = c.m.session]}
    ELSE ToolsFailed(c, "Session not connected")

\* the loop of _handle_tool_calls: the next call is counted and execute_tool
\* awaited, or the loop is over
ToolsCall(c) ==
    IF c.todo > 0
    THEN {[c EXCEPT !.tool_calls_count = @ + 1, !.loop = "tool"]}
    ELSE ToolsRespond(c)

\* _handle_tool_calls: the tool_call_start frame, then its loop
ToolsBegin(c, n) ==
    LET c1 == [c EXCEPT !.todo = n, !.batch = n] IN
    LoopSuspended(c1, StartFrame(AskedCalls(n)), "tool_start")
        \cup ToolsCall(SendToClient(c1, StartFrame(AskedCalls(n))))

\* the function call whose execute_tool is awaited
ToolsAwaited(c) == AskedCalls(c.batch)[c.batch - c.todo + 1]

\* an execute_tool returned `result`: the tool_result frame with its response
\* dict, then the next call or send_tool_response
ToolsNext(c, result) ==
    LET c1 == [c EXCEPT !.todo = @ - 1]
        frame == ResultFrame(ToolsAwaited(c), result)
    IN  LoopSuspended(c1, frame, "tool_result") \cup ToolsCall(SendToClient(c1, frame))

\* the body of the async for from `if response.tool_call` on
LoopTools(c, response) ==
    IF response.tool_calls > 0 THEN ToolsBegin(c, response.tool_calls)
    ELSE LoopTail(c, response)

\* the body of the async for from the text parts on
LoopText(c, response) ==
    IF response.text # None
    THEN LoopSuspended(c, TextFrame(response.text), "text")
            \cup LoopTools(SendToClient(c, TextFrame(response.text)), response)
    ELSE LoopTools(c, response)

\* a loop body that goes on to the next response without calling resume()
LoopBodySkipsResume(c, response) ==
    LET c0 == [c EXCEPT !.response = response] IN
    IF response.tool_calls > 0
    THEN ToolsBegin(c0, response.tool_calls)
    ELSE IF response.interrupted
    THEN LoopEnd(SendToClient(c0, InterruptedFrame), response)
    ELSE LoopEnd(c0, response)

\* a loop body that writes the text before the audio
LoopBodyTextFirst(c, response) ==
    LET c0 == [c EXCEPT !.response = response]
        c1 == IF response.text # None
              THEN SendToClient(c0, TextFrame(response.text)) ELSE c0
        c2 == IF response.data # ""
              THEN SendToClient(c1, AudioFrame(Hex(response.data))) ELSE c1
    IN  LoopTools(c2, response)

\* the body of the async for, after receive() yielded the response: frames
\* for audio and text, then the tool calls, then the rest of the body
LoopBody(c, response) ==
    LET c0 == [c EXCEPT !.response = response] IN
    IF response.data # ""
    THEN LoopSuspended(c0, AudioFrame(Hex(response.data)), "audio")
            \cup LoopText(SendToClient(c0, AudioFrame(Hex(response.data))), response)
    ELSE LoopText(c0, response)

\* the places where _receive_loop waits for a send_json to return
LoopSends == {"audio", "text", "tool_start", "tool_result", "tool_error", "turn_complete",
              "crash"}

\* a send_json that had suspended _receive_loop returns: the loop goes on
\* from there
LoopSent(c) ==
    CASE c.loop = "audio" -> LoopText(c, c.response)
      [] c.loop = "text" -> LoopTools(c, c.response)
      [] c.loop \in {"tool_start", "tool_result"} -> ToolsCall(c)
      [] c.loop = "tool_error" -> LoopTail(c, c.response)
      [] c.loop = "turn_complete" -> {LoopBreak(c)}
      [] c.loop = "crash" -> {[c EXCEPT !.loop = "crashed"]}

\* ------------------------------------------------------------ get_metrics
GetMetrics(c) ==
    [session_id |-> c.session_id, turn_count |-> c.turn_count,
     tool_calls_count |-> c.tool_calls_count,
     state |-> IF c.made THEN c.m.state ELSE "disconnected"]

\* a get_all_metrics that reports the first session only
GetAllMetricsFirst ==
    IF sessions = <<>> THEN <<>> ELSE <<GetMetrics(conn[sessions[1]])>>

\* get_all_metrics
GetAllMetrics == [i \in 1..Len(sessions) |-> GetMetrics(conn[sessions[i]])]

\* ---------------------------------------------------------------- actions
\* handle_client is called: the session is registered; building the SDK
\* client raises, LiveSession.connect writes the error frame in its except
\* branch and re-raises, handle_client's outer except takes it and the finally
\* runs
AcceptClientRaises(s) ==
    /\ conn[s].at = "new"
    /\ \E c \in AllHandled(LiveConnectRaised(conn[s])) :
        /\ sessions' = Registry(Register(sessions, s), c)
        /\ Step(s, "handle_client", "raised", c)

\* the send of the error frame returns: LiveSession.connect re-raises,
\* handle_client's outer except takes it and the finally runs
ConnectErrorRaised(s) ==
    /\ conn[s].at = "failed"
    /\ \E c \in Handled([conn[s] EXCEPT !.at = "raised"]) :
        /\ sessions' = Registry(sessions, c)
        /\ Step(s, "handle_client", "finally", c)

\* handle_client is called: the session is registered, the manager is built
\* and its connect() awaits __aenter__
AcceptConnects(s) ==
    /\ conn[s].at = "new"
    /\ sessions' = Register(sessions, s)
    /\ LET c == conn[s] IN
        Step(s, "handle_client", "pending",
             [c EXCEPT !.made = TRUE, !.m = ConnectBegin(@, c.next), !.at = "connecting",
                       !.ctx = c.next, !.next = @ + 1])

\* handle_client is called: the session is registered, the manager is built
\* and the SDK's connect raises at once: the manager's connect() returns False
AcceptConnectRaises(s) ==
    /\ conn[s].at = "new"
    /\ sessions' = Register(sessions, s)
    /\ \E c \in LiveConnected([conn[s] EXCEPT !.made = TRUE,
                                              !.m = ConnectFailed(SetState(@, CONNECTING))]) :
        Step(s, "connect", "false", c)

\* __aenter__ returns the stream: the manager's connect() returns True, in
\* LiveSession.connect or in reset
UpstreamEntered(s) ==
    /\ conn[s].at \in {"connecting", "reset_connect"}
    /\ LET c == conn[s]
           c1 == [c EXCEPT !.m = ConnectEntered(@, c.ctx), !.opened = @ \cup {c.ctx}]
       IN  \E c2 \in IF c.at = "connecting" THEN LiveConnected(c1) ELSE ResetDone(c1) :
               Step(s, "connect", "true", c2)
    /\ sessions' = sessions

\* __aenter__ raises: the manager's connect() returns False
UpstreamRefused(s) ==
    /\ conn[s].at \in {"connecting", "reset_connect"}
    /\ LET c == conn[s]
           c1 == [c EXCEPT !.m = ConnectFailed(@)]
       IN  \E c2 \in IF c.at = "connecting" THEN LiveConnected(c1) ELSE ResetDone(c1) :
               Step(s, "connect", "false", c2)
    /\ sessions' = sessions

\* __aexit__ returns or raises: the manager's disconnect() ends in its finally,
\* in reset or in LiveSession.disconnect
UpstreamExited(s) ==
    /\ conn[s].at \in {"closing", "reset_disconnect"}
    /\ LET c == conn[s]
           c1 == [c EXCEPT !.m = DisconnectFinally(@), !.opened = @ \ {c.ctx}]
       IN  \E c2 \in IF c.at = "closing" THEN TeardownEnd(c1) ELSE {ResetReconnects(c1)} :
               /\ sessions' = Registry(sessions, c2)
               /\ Step(s, "disconnect", "ok", c2)

\* __aexit__ returns or raises in reset, and the SDK's connect raises at once:
\* the manager's reset returns, reset_session goes on
UpstreamExitedConnectRaises(s) ==
    /\ conn[s].at = "reset_disconnect"
    /\ LET c == conn[s] IN
        \E c2 \in ResetDone([c EXCEPT !.m = ResetConnectRaised(DisconnectFinally(@)),
                                      !.opened = @ \ {c.ctx}]) :
            Step(s, "connect", "false", c2)
    /\ sessions' = sessions

\* websocket.receive_text() returns a text of the client
ReceiveText(s, datas) ==
    /\ conn[s].at = "serving"
    /\ conn[s].client = "CONNECTED"
    /\ \E data \in datas :
        /\ data = TextText => Len(conn[s].m.conversation_history) < MaxHistory
        /\ data = ResetText => conn[s].next <= MaxStreams
        /\ \E c \in AllHandled(HandleText(conn[s], data)) :
            /\ sessions' = Registry(sessions, c)
            /\ Step(s, "receive_text", data, c)

\* websocket.receive_text() returns a reset frame, the manager has no session
\* to disconnect and the SDK's connect raises at once: the manager's reset
\* returns without an await, reset_session goes on
ReceiveResetRaises(s) ==
    /\ conn[s].at = "serving"
    /\ conn[s].client = "CONNECTED"
    /\ conn[s].made
    /\ ~(DisconnectGuard(conn[s].m) /\ conn[s].m.session_context # NoStream)
    /\ \E c \in ResetDone([conn[s] EXCEPT !.m = ResetConnectRaised(DisconnectSync(@))]) :
        Step(s, "receive_text", ResetText, c)
    /\ sessions' = sessions

\* the places where handle_client waits for a send_json to return
ClientSends == {"hello", "pong", "reset_sent", "bye"}

\* a send_json that had suspended handle_client returns: LiveSession.connect
\* starts the receive loop, the frame's handling is over, or the finally goes
\* on to drop the session
ClientSent(c) ==
    CASE c.at = "hello" -> LiveServing(c)
      [] c.at \in {"pong", "reset_sent"} -> [c EXCEPT !.at = "serving"]
      [] c.at = "bye" -> [c EXCEPT !.at = "done"]

ClientSendReturns(s) ==
    /\ conn[s].at \in ClientSends
    /\ LET c == ClientSent(conn[s]) IN
        /\ sessions' = Registry(sessions, c)
        /\ Step(s, "handle_client", "sent", c)

\* websocket.receive_text() raises: the client has gone, the websocket is no
\* longer connected, the finally runs
ReceiveTextRaises(s) ==
    /\ conn[s].at = "serving"
    /\ conn[s].client = "GONE"
    /\ \E c \in Teardown([conn[s] EXCEPT !.client = "DISCONNECTED"]) :
        /\ sessions' = Registry(sessions, c)
        /\ Step(s, "receive_text", "raised", c)

\* the SDK call of send_text / send_audio returns: the payload is written
\* upstream
UpstreamSent(s) ==
    /\ conn[s].at \in {"send_text", "send_audio"}
    /\ LET c == conn[s] IN
        Step(s, c.at, "ok",
             [c EXCEPT !.m = IF c.at = "send_text" THEN SendTextDone(@, c.arg)
                             ELSE SendAudioDone(@, c.arg),
                       !.wrote = <<[stream |-> c.ctx, kind |-> c.at, payload |-> c.arg]>>,
                       !.at = "serving", !.arg = None, !.ctx = NoStream])
    /\ sessions' = sessions

\* the SDK call of send_text / send_audio raises: the exception goes on to
\* handle_client
UpstreamSendRaises(s) ==
    /\ conn[s].at \in {"send_text", "send_audio"}
    /\ \E c \in Handled([conn[s] EXCEPT !.at = "raised", !.arg = None, !.ctx = NoStream]) :
        /\ sessions' = Registry(sessions, c)
        /\ Step(s, conn[s].at, "raised", c)

\* the client goes away: send_json raises from now on, receive_text will raise
ClientGoesAway(s) ==
    /\ conn[s].at \notin {"new", "done"}
    /\ conn[s].client = "CONNECTED"
    /\ Step(s, "client", "gone", [conn[s] EXCEPT !.client = "GONE"])
    /\ sessions' = sessions

\* _receive_loop at the top of its while loop
ReceiveLoopTop(s) ==
    /\ conn[s].loop = "top"
    /\ conn[s].is_active /\ conn[s].made => conn[s].turn_count < MaxTurns
    /\ \E c \in LoopTop(conn[s]) : Step(s, "_receive_loop", "top", c)
    /\ sessions' = sessions

\* the stream hands over its next response: receive() inspects and yields it,
\* the loop body runs
ReceiveLoopEvent(s, events) ==
    /\ conn[s].loop = "streaming"
    /\ Len(conn[s].read) < MaxEvents
    /\ \E response \in events :
        /\ conn[s].tool_calls_count + response.tool_calls <= MaxToolCalls
        /\ \E c \in LoopBody([conn[s] EXCEPT !.m = ReceiveHandle(@, response),
                                              !.event = <<response>>],
                              ReceiveYield(response)) :
            Step(s, "_receive_loop", "yield", c)
    /\ sessions' = sessions

\* a send_json that had suspended _receive_loop returns
ReceiveLoopSendReturns(s) ==
    /\ conn[s].loop \in LoopSends
    /\ \E c \in LoopSent(conn[s]) : Step(s, "_receive_loop", "sent", c)
    /\ sessions' = sessions

\* the send of the interrupted frame returns: self.gemini_session.resume()
ReceiveLoopResumes(s) ==
    /\ conn[s].loop = "resume"
    /\ \E c \in LoopResumed(conn[s], conn[s].response) : Step(s, "resume", "ok", c)
    /\ sessions' = sessions

\* the stream's iteration ends without turn_complete: back to the while
ReceiveLoopStreamEnds(s) ==
    /\ conn[s].loop = "streaming"
    /\ Step(s, "_receive_loop", "end", [conn[s] EXCEPT !.loop = "top", !.turn = NoStream])
    /\ sessions' = sessions

\* the stream raises: the outer except
ReceiveLoopStreamRaises(s) ==
    /\ conn[s].loop = "streaming"
    /\ \E c \in LoopCrashed(conn[s], "upstream") : Step(s, "_receive_loop", "raised", c)
    /\ sessions' = sessions

\* the execute_tool awaited by _handle_tool_calls returns
ToolExecuted(s) ==
    /\ conn[s].loop = "tool"
    /\ \E result \in ToolResult(ToolsAwaited(conn[s])) :
        \E c \in ToolsNext(conn[s], result) : Step(s, "execute_tool", "ok", c)
    /\ sessions' = sessions

\* the SDK's send_tool_response returns: the results are written upstream, and
\* the loop body goes on
ToolResponseSent(s) ==
    /\ conn[s].loop = "toolsend"
    /\ LET c == conn[s] IN
        \E c2 \in LoopTail([c EXCEPT !.m = SendToolResponseDone(@, "results"),
                                     !.wrote = <<[stream |-> c.lctx, kind |-> "send_tool_response",
                                                  payload |-> "results"]>>,
                                     !.todo = 0, !.batch = 0, !.lctx = NoStream],
                           c.response) :
            Step(s, "send_tool_response", "ok", c2)
    /\ sessions' = sessions

\* the SDK's send_tool_response raises: the except of _handle_tool_calls
ToolResponseRaises(s) ==
    /\ conn[s].loop = "toolsend"
    /\ \E c \in ToolsFailed([conn[s] EXCEPT !.lctx = NoStream], "upstream") :
        Step(s, "send_tool_response", "raised", c)
    /\ sessions' = sessions

\* GET /api/metrics: get_all_metrics
MetricsCall ==
    /\ did' = [NoStep EXCEPT !.op = "get_all_metrics", !.metrics = GetAllMetrics]
    /\ UNCHANGED <<held, sessVars, toolVars, sessions, conn>>

\* ------------------------------------------------------------ specifications
\* The calls of the loop that handles the client's frames: connect on accept,
\* send_text, send_audio and reset on a frame, disconnect at the end; and any
\* synchronous call.
InboundStep(t) ==
    \/ ConnectCall(t) \/ ConnectCallRaised(t) \/ ConnectOk(t) \/ ConnectFail(t)
    \/ DisconnectCall(t) \/ DisconnectExited(t) \/ DisconnectExitRaised(t)
    \/ SendTextCall(t) \/ SendAudioCall(t)
    \/ SendTextOk(t) \/ SendAudioOk(t) \/ SendRaised(t)
    \/ Resume(t)
    \/ ResetCall(t) \/ ResetCallRaised(t) \/ ResetExited(t) \/ ResetExitedRaised(t)
    \/ ResetConnectOk(t) \/ ResetConnectFail(t)

\* The calls of the loop that drains receive(): the generator's steps, resume
\* after an interruption, send_tool_response after a tool call.
RecvLoopStep(t) ==
    \/ SendToolResponseCall(t) \/ SendToolResponseOk(t) \/ SendRaised(t)
    \/ Resume(t)
    \/ pc[t].op = "idle" /\ ReceiveStart
    \/ pc[t].op = "idle" /\ ReceiveEvent
    \/ pc[t].op = "idle" /\ ReceiveEnd
    \/ pc[t].op = "idle" /\ ReceiveRaised
    \/ pc[t].op = "idle" /\ ReceiveClose

\* Any interleaving asyncio allows: either loop may be suspended at an await
\* while the other runs.
Next == InboundStep(Inbound) \/ RecvLoopStep(RecvLoop)

Spec == Init /\ [][Next]_vars

\* The manager with the calls of the loop that handles the client's frames,
\* and a caller that asks for the conversation history between their steps
\* and changes the list it gets.
HistoryNext ==
    \/ InboundStep(Inbound)
    \/ GetConversationHistoryCall
    \/ CallerChangesList

HistorySpec == Init /\ [][HistoryNext]_vars

\* A ToolExecutor on its own: registrations and calls in any order, a
\* registration at any await of a call.
ExecutorCalls(watched) ==
    \/ ExecuteToolCall
    \/ ExecuteMultipleCall
    \/ ExecuteToolStarts
    \/ ExecuteToolCompletes(watched)
    \/ ExecuteMultipleReturns

ToolNext == RegisterTool \/ ExecutorCalls(TRUE)

ToolSpec == Init /\ [][ToolNext]_vars

\* The same, read by what the calls return and not by how the handlers ran.
GatherNext == RegisterTool \/ ExecutorCalls(FALSE)

GatherSpec == Init /\ [][GatherNext]_vars

\* Registrations and single execute_tool calls, with how each handler ran.
CallNext == RegisterTool \/ ExecuteToolCall \/ ExecuteToolCompletes(TRUE)

CallSpec == Init /\ [][CallNext]_vars

\* A LiveSession while it is active: LiveSession.connect, then handle_client
\* passing the client's text, audio and reset frames on while _receive_loop
\* runs as a task of its own.
LiveInit ==
    /\ ManagerInit
    /\ tools = SetupTools
    /\ tool_declarations = SetupDeclarations
    /\ exec = NoExec
    /\ live = NewLive
    /\ ProxyInit

\* handle_client has a frame of the client to pass on: it is in its while
\* loop and the websocket still delivers
FrameArrives == IsActive /\ live.client = "CONNECTED"

\* a text or audio frame while the manager's send guard fails: send_text /
\* send_audio raises RuntimeError, which ends handle_client's loop
LiveSendRefused(t) ==
    /\ FrameArrives
    /\ pc[t].op = "idle"
    /\ ~SendGuard(Self)
    /\ \E op \in {"send_text", "send_audio"} : LiveDisconnect(t, op, "not_connected", None)
    /\ UNCHANGED <<held, proxyVars, toolVars, opened, nextId, turn>>

\* the SDK call of send_text / send_audio raises: the exception ends
\* handle_client's loop
LiveSendRaised(t) ==
    /\ pc[t].op \in {"send_text", "send_audio"}
    /\ LiveDisconnect(t, pc[t].op, "raised", "raised")
    /\ UNCHANGED <<held, proxyVars, toolVars, opened, nextId, turn>>

\* the websocket has closed: receive_text raises, which ends handle_client's
\* loop
LiveReceiveTextRaises(t) ==
    /\ IsActive
    /\ pc[t].op = "idle"
    /\ live.client # "CONNECTED"
    /\ LiveDisconnect(t, "receive_text", "raised", None)
    /\ UNCHANGED <<held, proxyVars, toolVars, opened, nextId, turn>>

\* the __aexit__ of the teardown's disconnect() returns or raises: the
\* manager is closed, LiveSession.disconnect sends the disconnected frame
LiveDisconnectExited(t) ==
    /\ pc[t].op = "disconnect"
    /\ \E sdk \in {"returned", "raised"} :
        LET m == DisconnectFinally(Self) IN
        /\ Install(m)
        /\ out' = Out("disconnect", "ok", sdk, m, NoWrite, <<>>, <<>>)
    /\ opened' = opened \ {pc[t].ctx}
    /\ \E pos \in LiveDisconnected : pc' = [pc EXCEPT ![t] = pos]
    /\ UNCHANGED <<held, proxyVars, toolVars, nextId, turn>>

\* the send of the disconnected frame returns: handle_client returns
LiveDisconnectSent(t) ==
    /\ pc[t].op = "_send_to_client"
    /\ pc' = [pc EXCEPT ![t] = Pos("returned", NoStream, None, NoStream)]
    /\ out' = Out("_send_to_client", "ok", None, Self, NoWrite, <<>>, <<>>)
    /\ UNCHANGED <<held, proxyVars, toolVars, mgrVars, opened, nextId, turn>>

\* a text frame passed on while the manager is connected, and the return of
\* its SDK call
LiveText(t) ==
    \/ /\ FrameArrives
       /\ SendGuard(Self)
       /\ Len(conversation_history) + TextsInFlight < MaxHistory
       /\ SendCall(t, "send_text", ClientText)
    \/ SendTextOk(t)

\* the other steps of handle_client: LiveSession.connect, audio and reset
\* frames, a frame refused, an SDK call raising, the teardown
LiveCalls(t) ==
    \/ state = DISCONNECTED /\ ConnectCall(t)
    \/ state = DISCONNECTED /\ ConnectCallRaised(t)
    \/ ConnectOk(t)
    \/ ConnectFail(t)
    \/ FrameArrives /\ SendGuard(Self) /\ SendAudioCall(t)
    \/ LiveSendRefused(t)
    \/ SendAudioOk(t)
    \/ LiveSendRaised(t)
    \/ LiveReceiveTextRaises(t)
    \/ LiveDisconnectExited(t)
    \/ LiveDisconnectSent(t)
    \/ FrameArrives /\ ResetCall(t)
    \/ FrameArrives /\ ResetCallRaised(t)
    \/ ResetExited(t)
    \/ ResetExitedRaised(t)
    \/ ResetConnectOk(t)
    \/ ResetConnectFail(t)

LiveInbound(t) == LiveText(t) \/ LiveCalls(t)

\* the steps of the _receive_loop task, and the websocket closing
LiveLoop(events) ==
    \/ LoopReceive
    \/ LoopEvent(events)
    \/ LoopResume
    \/ LoopToolCall
    \/ LoopToolDone
    \/ LoopSendReturns
    \/ LoopToolResponseOk
    \/ LoopToolResponseRaised
    \/ LoopTurnEnds
    \/ LoopStreamRaised
    \/ ClientCloses

\* every response the stream can hand over
LiveNext == LiveInbound(Inbound) \/ LiveLoop(Events)

LiveSpec == LiveInit /\ [][LiveNext]_vars

\* the same session with a client that sends audio and reset frames and a
\* stream whose responses carry no resumption update: tool-call batches among
\* content, interruptions, the client's frames and the teardown
BatchNext == LiveCalls(Inbound) \/ LiveLoop(ContentEvents)

BatchSpec == LiveInit /\ [][BatchNext]_vars

\* One websocket of the server, from accept to the end of its tasks, with
\* every frame a client can send and every response upstream can hand over.
ServerStep(s, datas, events) ==
    \/ AcceptClientRaises(s)
    \/ ConnectErrorRaised(s)
    \/ AcceptConnects(s)
    \/ AcceptConnectRaises(s)
    \/ UpstreamEntered(s)
    \/ UpstreamRefused(s)
    \/ UpstreamExited(s)
    \/ UpstreamExitedConnectRaises(s)
    \/ ReceiveText(s, datas)
    \/ ReceiveResetRaises(s)
    \/ ClientSendReturns(s)
    \/ ReceiveTextRaises(s)
    \/ UpstreamSent(s)
    \/ UpstreamSendRaises(s)
    \/ ClientGoesAway(s)
    \/ ReceiveLoopTop(s)
    \/ ReceiveLoopEvent(s, events)
    \/ ReceiveLoopSendReturns(s)
    \/ ReceiveLoopResumes(s)
    \/ ReceiveLoopStreamEnds(s)
    \/ ReceiveLoopStreamRaises(s)
    \/ ToolExecuted(s)
    \/ ToolResponseSent(s)
    \/ ToolResponseRaises(s)

\* the event loop runs the oldest task _on_state_change has created:
\* _send_to_client writes its frame if the client is still there
StateChangeSent(s) ==
    /\ conn[s].tasks # <<>>
    /\ Step(s, "_send_to_client", "state_change",
            [SendToClient(conn[s], Head(conn[s].tasks)) EXCEPT !.tasks = Tail(@)])
    /\ sessions' = sessions

ServerNext ==
    \/ ServerStep("sid-a", InboundData, UpstreamEvents)
    \/ MetricsCall

ServerSpec == Init /\ [][ServerNext]_vars

\* One websocket with one frame of each way handle_client has of handling it
\* (answered at once, passed on to the SDK, a reset, an error) and one
\* response of each kind.
CoreData == {PingText, TextText, ResetText, RawWords}
CoreEvents == {AudioEvent, TextEvent, InterruptedEvent, TurnCompleteEvent, ToolCallEvent(1)}

SessionNext == ServerStep("sid-a", CoreData, CoreEvents)

SessionSpec == Init /\ [][SessionNext]_vars

\* One websocket whose client sends text and resets while upstream hands over
\* tool calls and ends turns, with the turn_complete frames the client gets
\* recorded.
TurnInit ==
    /\ ManagerInit /\ ExecutorInit /\ live = NewLive
    /\ sessions = <<>>
    /\ conn = [sid \in SessionIds |-> [NewSession(sid) EXCEPT !.recorded = "turns"]]
    /\ did = NoStep

TurnNext ==
    ServerStep("sid-a", {TextText, ResetText},
               {TurnCompleteEvent, InterruptedEvent}
                   \cup {ToolCallEvent(n) : n \in 1..MaxBatch})

TurnSpec == TurnInit /\ [][TurnNext]_vars

\* One websocket whose receive loop reads responses that carry several parts,
\* while handle_client answers pings; the responses read and the frames the
\* loop sends are recorded.
\* the server with the tasks of _on_state_change: one client, whose manager's
\* state changes and state_change frames are recorded
StateInit ==
    /\ ManagerInit /\ ExecutorInit /\ live = NewLive
    /\ sessions = <<>>
    /\ conn = [sid \in SessionIds |-> [NewSession(sid) EXCEPT !.recorded = "states"]]
    /\ did = NoStep

\* the steps in which the manager's state changes, and the tasks' own
StateStep(s) ==
    \/ AcceptConnects(s)
    \/ UpstreamEntered(s)
    \/ UpstreamRefused(s)
    \/ UpstreamExited(s)
    \/ ReceiveText(s, {ResetText})
    \/ ClientSendReturns(s)
    \/ ReceiveLoopTop(s)
    \/ ReceiveLoopEvent(s, {InterruptedEvent})
    \/ ReceiveLoopSendReturns(s)
    \/ ReceiveLoopResumes(s)
    \/ StateChangeSent(s)

StateNext == StateStep("sid-a")

StateSpec == StateInit /\ [][StateNext]_vars

OrderInit ==
    /\ ManagerInit /\ ExecutorInit /\ live = NewLive
    /\ sessions = <<>>
    /\ conn = [sid \in SessionIds |-> [NewSession(sid) EXCEPT !.recorded = "frames"]]
    /\ did = NoStep

OrderStep(s) ==
    \/ AcceptConnects(s)
    \/ UpstreamEntered(s)
    \/ ReceiveText(s, {PingText})
    \/ ClientSendReturns(s)
    \/ ReceiveLoopTop(s)
    \/ ReceiveLoopEvent(s, CombinedEvents)
    \/ ReceiveLoopSendReturns(s)
    \/ ReceiveLoopResumes(s)
    \/ ReceiveLoopStreamEnds(s)
    \/ ToolExecuted(s)
    \/ ToolResponseSent(s)
    \/ ToolResponseRaises(s)

OrderNext == OrderStep("sid-a")

OrderSpec == OrderInit /\ [][OrderNext]_vars

\* Two websockets of one server.  The first to arrive connects, sends text,
\* takes resumption updates and stays (its client is quiet from then on);
\* the second arrives while the first is live and goes through what a
\* session can: frames that are handled and frames that fail, resets, tool
\* calls, turns, failures at every await, the client going away.
BystanderStep(s) ==
    \/ AcceptConnects(s)
    \/ UpstreamEntered(s)
    \/ ReceiveText(s, {TextText})
    \/ ClientSendReturns(s)
    \/ UpstreamSent(s)
    \/ ReceiveLoopTop(s)
    \/ ReceiveLoopEvent(s, {UpdateEvent})

\* the session is live: connected, its loop reading the stream, with text
\* sent and a resumption token stored
Settled(s) ==
    /\ conn[s].at = "serving" /\ conn[s].loop = "streaming"
    /\ conn[s].m.conversation_history # <<>>
    /\ conn[s].m.resumption_token # None

PairNext ==
    \/ conn["sid-a"].at = "new" /\ BystanderStep("sid-b")
    \/ Settled("sid-b") /\ ServerStep("sid-a", {TextText, ResetText, RawWords},
                                        {TurnCompleteEvent, InterruptedEvent,
                                         ToolCallEvent(1)})
    \/ MetricsCall

PairSpec == Init /\ [][PairNext]_vars

\* ------------------------------------------------------------------- claims
SendOps == {"send_text", "send_audio", "send_tool_response"}

\* The edges of the state machine of section 4.2.
Edges ==
    {<<DISCONNECTED, CONNECTING>>, <<ERROR, CONNECTING>>,
     <<CONNECTING, CONNECTED>>, <<CONNECTING, ERROR>>,
     <<CONNECTED, INTERRUPTED>>, <<INTERRUPTED, CONNECTED>>,
     <<CONNECTED, ERROR>>, <<CLOSING, CLOSED>>}
    \cup {<<s, CLOSING>> : s \in SessionState}

\* the states a step goes through: the state before it, then every change made
Path == <<state>> \o out'.fired

\* C1: whatever calls are made, every change of `state`
\* follows an edge of the state machine of section 4.2.
C1_EveryChangeFollowsAnEdge ==
    [][\A i \in 1..(Len(Path) - 1) : <<Path[i], Path[i + 1]>> \in Edges]_vars

\* C2: a send call made in a state other than Connected fails with "Session not
\* connected", writes nothing upstream and changes nothing; a send call goes on
\* to the upstream write only in Connected.
C2_SendRequiresConnected ==
    [][(out'.op \in SendOps /\ out'.result \in {"pending", "not_connected"}) =>
          /\ state # CONNECTED => out'.result = "not_connected"
          /\ out'.result = "not_connected" =>
                /\ out'.wrote = NoWrite
                /\ out'.fired = <<>>
                /\ UNCHANGED <<mgrVars, opened, nextId, pc, turn>>]_vars

C2_Witness ==
    /\ out.op = "send_text"
    /\ out.result = "not_connected"
    /\ state = INTERRUPTED
    /\ session # NoStream

\* C3: a send_text whose upstream write returned appends exactly one user entry
\* with the text of the call; a send_text that fails, and every send_audio and
\* send_tool_response, leaves the history as it was.
C3_HistoryTracksSentText ==
    [][out'.op \in SendOps =>
          IF out'.op = "send_text" /\ out'.sdk = "returned"
          THEN \E t \in Tasks :
                    /\ pc[t].op = "send_text"
                    /\ pc'[t] = Idle
                    /\ out'.result = "ok"
                    /\ out'.wrote.payload = pc[t].payload
                    /\ conversation_history' =
                          Append(conversation_history,
                                 [role |-> "user", content |-> pc[t].payload, type |-> "text"])
          ELSE conversation_history' = conversation_history]_vars

C3_Witness ==
    /\ out.op = "send_text"
    /\ out.result = "ok"
    /\ Len(conversation_history) = 2
    /\ conversation_history[2].content = out.wrote.payload
    /\ conversation_history[1].content # conversation_history[2].content

\* C4: resume() changes nothing and calls no callback unless the state is
\* Interrupted; in Interrupted it sets the state to Connected and nothing else.
C4_ResumeOnlyFromInterrupted ==
    [][out'.op = "resume" =>
          /\ UNCHANGED <<session, session_context, resumption_token,
                         conversation_history, opened, nextId, pc, turn>>
          /\ IF state = INTERRUPTED
             THEN state' = CONNECTED /\ out'.fired = <<CONNECTED>>
             ELSE state' = state /\ out'.fired = <<>>]_vars

C4_Witness ==
    /\ out.op = "resume"
    /\ out.fired = <<CONNECTED>>
    /\ state = CONNECTED

C6_ConnectOutcome ==
    [][out'.op = "connect" =>
          /\ (out'.result = "pending" /\ state \in {DISCONNECTED, ERROR}) =>
                state' = CONNECTING /\ out'.fired = <<CONNECTING>>
          /\ out'.sdk = "returned" => state' = CONNECTED /\ out'.result = "true"
          /\ out'.sdk = "raised" =>
                /\ state' = ERROR
                /\ out'.result = "false"
                /\ nextId' = nextId
                /\ session_context' = session_context
                /\ \A t \in Tasks : pc'[t].op # "connect"]_vars

C6_Witness ==
    /\ out.op = "connect"
    /\ out.sdk = "raised"
    /\ out.result = "false"
    /\ state = ERROR

\* C7: every disconnect() called in Connecting, Connected, Interrupted or Error
\* goes through Closing and returns with the state Closed and the stream
\* handle dropped.
C7_DisconnectAlwaysCloses ==
    [][(out'.op = "disconnect" /\ out'.result = "ok") =>
          /\ (\E t \in Tasks : pc[t].op = "disconnect") =>
                state' = CLOSED /\ session' = NoStream
          /\ ((\A t \in Tasks : pc[t].op # "disconnect")
                /\ state \in {CONNECTING, CONNECTED, INTERRUPTED, ERROR}) =>
                /\ state' = CLOSED
                /\ session' = NoStream
                /\ out'.fired = <<CLOSING, CLOSED>>]_vars

\* C8: disconnect() called in Closed or Disconnected changes nothing, calls no
\* callback and closes no stream; after any disconnect() has returned no
\* handle is held, so that a second one finds nothing to do.
C8_DisconnectIdempotent ==
    [][out'.op = "disconnect" =>
          /\ ((\A t \in Tasks : pc[t].op # "disconnect")
                /\ state \in {CLOSED, DISCONNECTED}) =>
                /\ out'.result = "ok"
                /\ out'.fired = <<>>
                /\ UNCHANGED <<mgrVars, opened, nextId, pc, turn>>
          /\ out'.result = "ok" => session' = NoStream]_vars

C8_Witness ==
    /\ out.op = "disconnect"
    /\ out.result = "ok"
    /\ out.sdk = None
    /\ out.fired = <<>>
    /\ state = CLOSED

\* C9: when a reset() returns, the history is empty and the token unset, and
\* the state is Connected if the stream of its connect opened.
C9_ResetClearsAndReconnects ==
    [][(out'.op = "reset" /\ out'.result = "ok") =>
          /\ conversation_history' = <<>>
          /\ resumption_token' = None
          /\ out'.sdk = "returned" =>
                /\ state' = CONNECTED
                /\ session' # NoStream
                /\ session' \in opened']_vars

\* C10: never more than one upstream stream is open (entered and not exited).
C10_AtMostOneStreamOpen == Cardinality(opened) <= 1

\* C11: a new manager is Disconnected and not connected; in every step the
\* on_state_change calls are exactly the changes of state the step made, one
\* call per change, each with the new state and in the order of the changes;
\* where the state is set to the value it already has, no call is made.
C11_CallbackOncePerChange ==
    /\ state = DISCONNECTED
    /\ ~IsConnected(Self)
    /\ [][/\ Path[Len(Path)] = state'
          /\ \A i \in 1..Len(out'.fired) : Path[i] # Path[i + 1]]_vars

\* a connect whose client call raised at once: two changes in one step, two
\* calls, in that order
C11_Witness ==
    /\ out.op = "connect"
    /\ out.result = "false"
    /\ out.fired = <<CONNECTING, ERROR>>
    /\ state = ERROR

\* ------------------------------------------------------ claims: ToolExecutor
\* the step in which the i-th execute_tool of the call looks its handler up
LookedUp(i) ==
    /\ exec' # exec
    /\ i \in 1..Len(exec'.slots)
    /\ exec'.slots[i].status # "new"
    /\ exec.phase # "running" \/ exec.slots[i].status = "new"

\* the step in which the wait_for of the i-th execute_tool completes
Completed(i) ==
    /\ exec.phase = "running"
    /\ exec.slots[i].status = "running"
    /\ exec'.slots[i].status # "running"

InTime(run) == run.elapsed < DefaultTimeout
DeclaredNames == {tool_declarations[k]["name"] : k \in 1..Len(tool_declarations)}

\* C12: execute_tool for a name that is not registered returns, without
\* calling a handler and without raising, the response with the call's id and
\* name and the single entry error: "Unknown function: <name>".
C12_UnknownFunctionIsAnError ==
    [][\A i \in 1..Len(exec'.slots) :
          (LookedUp(i) /\ exec'.calls[i].name \notin DOMAIN tools) =>
              /\ exec'.slots[i].status = "done"
              /\ exec'.slots[i].func = None
              /\ exec'.slots[i].response =
                    [id |-> exec'.calls[i].id, name |-> exec'.calls[i].name,
                     response |-> [k \in {"error"} |->
                                    <<"Unknown function: ", exec'.calls[i].name>>]]]_vars

\* a call for get_weather returned as unknown while another tool is registered
C12_Witness ==
    /\ exec.mode = "single"
    /\ exec.phase = "returned"
    /\ DOMAIN tools = {"get_current_time"}
    /\ exec.returned[1].id = "call-1"
    /\ exec.returned[1].name = "get_weather"
    /\ exec.returned[1].response = [k \in {"error"} |-> <<"Unknown function: ", "get_weather">>]

\* C13: when the handler of a registered name is still running as the timeout
\* passes, execute_tool returns error: "Function execution timed out after
\* <timeout>s" and raises nothing; when the handler returns before the timeout,
\* execute_tool returns result: the handler's value.
C13_TimeoutOrValue ==
    [][\A i \in 1..Len(exec.slots) :
          Completed(i) =>
              LET call == exec.calls[i]
                  func == exec.slots[i].func
                  slot == exec'.slots[i]
                  run == exec'.ran
              IN  /\ run.elapsed > DefaultTimeout =>
                        /\ slot.status = "done"
                        /\ slot.response =
                              [id |-> call.id, name |-> call.name,
                               response |-> [k \in {"error"} |->
                                  <<"Function execution timed out after ",
                                    FormatSeconds(DefaultTimeout), "s">>]]
                  /\ (InTime(run) /\ run.ends = "returns") =>
                        /\ slot.status = "done"
                        /\ slot.response =
                              [id |-> call.id, name |-> call.name,
                               response |-> [k \in {"result"} |->
                                  HandlerValue(func, ArgsOrEmpty(call.args))]]]_vars

\* C14: when the handler of a registered name raises, execute_tool returns
\* error: "Function execution failed: <message>" and raises nothing; and no
\* step of an execute call changes the registry.
C14_HandlerErrorIsReported ==
    [][/\ \A i \in 1..Len(exec.slots) :
            (Completed(i) /\ InTime(exec'.ran)
                /\ exec'.ran.ends \in {"raises", "raises_timeout"}) =>
                /\ exec'.slots[i].status = "done"
                /\ exec'.slots[i].response.response =
                      [k \in {"error"} |-> <<"Function execution failed: ", ErrorText>>]
       /\ exec' # exec => /\ tools' = tools
                          /\ tool_declarations' = tool_declarations]_vars

\* C15: every response execute_tool has produced carries the id and the name
\* of its call and exactly one of the keys result and error.
C15_OneKeyAndEcho ==
    /\ \A i \in 1..Len(exec.slots) :
          exec.slots[i].status = "done" =>
              /\ exec.slots[i].response.id = exec.calls[i].id
              /\ exec.slots[i].response.name = exec.calls[i].name
              /\ DOMAIN exec.slots[i].response.response \in {{"result"}, {"error"}}
    /\ \A i \in 1..Len(exec.returned) :
          /\ exec.returned[i].id = exec.calls[i].id
          /\ exec.returned[i].name = exec.calls[i].name
          /\ DOMAIN exec.returned[i].response \in {{"result"}, {"error"}}

\* a batch answered with a value and with an error
C15_Witness ==
    /\ exec.phase = "returned"
    /\ Len(exec.returned) = 2
    /\ DOMAIN exec.returned[1].response = {"result"}
    /\ DOMAIN exec.returned[2].response = {"error"}
    /\ exec.slots[2].func # None

\* C16: execute_multiple on n calls returns n responses, the i-th being the
\* response the execute_tool of the i-th call produced (same id, same name),
\* in whatever order they completed and however the others ended.
C16_ResultsInRequestOrder ==
    (exec.mode = "multiple" /\ exec.phase = "returned") =>
        /\ Len(exec.returned) = Len(exec.calls)
        /\ \A i \in 1..Len(exec.calls) :
              /\ exec.returned[i].id = exec.calls[i].id
              /\ exec.returned[i].name = exec.calls[i].name
              /\ exec.returned[i] = exec.slots[i].response

\* the second call completed first, with an error; the first with a value
C16_Witness ==
    /\ exec.mode = "multiple"
    /\ exec.phase = "returned"
    /\ exec.done = <<2, 1>>
    /\ exec.slots[2].func # None
    /\ DOMAIN exec.returned[2].response = {"error"}
    /\ DOMAIN exec.returned[1].response = {"result"}

\* C17: after a registration get_tool_declarations is one group whose list
\* names every registered tool; a call for a registered name runs the handler
\* registered under it, and when that handler returns in time the response
\* carries the name and, under result, the handler's value.
C17_RegisterThenExecute ==
    [][/\ <<tools, tool_declarations>>' # <<tools, tool_declarations>> =>
            /\ Len(GetToolDeclarations') = 1
            /\ DOMAIN tools' \subseteq
                  {GetToolDeclarations'[1].function_declarations[k]["name"] :
                      k \in 1..Len(GetToolDeclarations'[1].function_declarations)}
       /\ \A i \in 1..Len(exec'.slots) :
            (LookedUp(i) /\ exec'.calls[i].name \in DOMAIN tools) =>
                /\ exec'.slots[i].status = "running"
                /\ exec'.slots[i].func = tools[exec'.calls[i].name]
       /\ \A i \in 1..Len(exec.slots) :
            (Completed(i) /\ InTime(exec'.ran) /\ exec'.ran.ends = "returns") =>
                /\ exec'.slots[i].response.name = exec.calls[i].name
                /\ exec'.slots[i].response.response["result"] =
                      HandlerValue(exec.slots[i].func, ArgsOrEmpty(exec.calls[i].args))]_vars

\* get_weather registered once with h1, called, and answered with h1's value
C17_Witness ==
    /\ Len(tool_declarations) = 1
    /\ tool_declarations[1]["name"] = "get_weather"
    /\ tools["get_weather"] = "h1"
    /\ exec.mode = "single"
    /\ exec.phase = "returned"
    /\ exec.returned[1].name = "get_weather"
    /\ exec.returned[1].response = [k \in {"result"} |-> <<"h1", "city">>]

\* C18: the declarations hold one entry per name, and the declared names are
\* the names that can be executed.
C18_OneDeclarationPerName ==
    /\ \A j, k \in 1..Len(tool_declarations) :
          tool_declarations[j]["name"] = tool_declarations[k]["name"] => j = k
    /\ DeclaredNames = DOMAIN tools

\* ------------------------------------------------------- claims: LiveSession
\* the frames a batch owes the client once its first k calls are done
BatchFrames(calls, results, k) ==
    <<[type |-> "tool_call_start",
       tools |-> [j \in 1..Len(calls) |->
                    [name |-> calls[j].name, args |-> ArgsOrEmpty(calls[j].args)]]]>>
    \o [j \in 1..k |->
          [type |-> "tool_result", tool |-> calls[j].name, result |-> results[j].response]]

IsPrefix(p, q) == Len(p) <= Len(q) /\ \A j \in 1..Len(p) : p[j] = q[j]

\* C19: while _handle_tool_calls works on a batch of n calls, the frames it
\* has written are the tool_call_start frame with the n names and args in
\* request order followed by one tool_result frame per call done, in request
\* order, each with the response of that call (the frames written before the
\* websocket closed, if it closed); send_tool_response is called only once all
\* n tool_result frames are out, and what it writes upstream is the n
\* responses in request order.
C19_FramesThenUpstream ==
    /\ [](live.phase \in {"start", "executing", "result", "sending"} =>
            LET n == Len(live.calls)
                k == Len(live.results)
                owed == BatchFrames(live.calls, live.results, k)
            IN  /\ n >= 1
                /\ live.phase = "sending" => k = n
                /\ live.phase = "start" => k = 0
                /\ live.phase = "executing" => k = live.i - 1 /\ k < n
                /\ live.phase = "result" => k = live.i /\ k <= n
                /\ \A j \in 1..k : /\ live.results[j].id = live.calls[j].id
                                   /\ live.results[j].name = live.calls[j].name
                /\ IsPrefix(live.frames, owed)
                /\ live.client = "CONNECTED" => live.frames = owed
                /\ live.phase = "sending" =>
                      /\ pc[RecvLoop].op = "send_tool_response"
                      /\ pc[RecvLoop].payload = live.results)
    /\ [][(pc[RecvLoop].op = "send_tool_response" /\ pc'[RecvLoop].op = "idle"
              /\ out'.result = "ok") =>
            /\ live.phase = "sending"
            /\ out'.wrote.kind = "send_tool_response"
            /\ out'.wrote.payload = live.results
            /\ Len(out'.wrote.payload) = Len(live.calls)]_vars

\* two calls, the first run by its handler and the second unknown: the start
\* frame and both tool_result frames are out and send_tool_response is awaited
C19_Witness ==
    /\ live.phase = "sending"
    /\ live.client = "CONNECTED"
    /\ Len(live.calls) = 2
    /\ Len(live.frames) = 3
    /\ live.frames[1].type = "tool_call_start"
    /\ live.frames[2] = [type |-> "tool_result", tool |-> "get_weather",
                         result |-> [k \in {"result"} |-> <<"h1", "city">>]]
    /\ live.frames[3].tool = "google_search"
    /\ pc[RecvLoop].payload = live.results

\* C20: whenever _handle_tool_calls returns while the session is live (its
\* teardown has not begun), it has written one response per call of its
\* batch upstream, unless the upstream write itself raised.
C20_EveryToolCallAnswered ==
    [][(live'.phase \in {"answered", "failed"} /\ live'.phase # live.phase /\ IsActive') =>
          \/ live'.error = "upstream"
          \/ /\ live'.phase = "answered"
             /\ out'.wrote.kind = "send_tool_response"
             /\ Len(out'.wrote.payload) = Len(live.calls)
             /\ \A j \in 1..Len(live.calls) :
                   /\ out'.wrote.payload[j].id = live.calls[j].id
                   /\ out'.wrote.payload[j].name = live.calls[j].name]_vars
\* ---------------------------------------------- claims: WebSocketProxyServer
\* the types of the frames the last step wrote to the client, in order
FrameTypes == [i \in 1..Len(did.frames) |-> did.frames[i].type]
SentTypes == {FrameTypes[i] : i \in 1..Len(FrameTypes)}
\* the last step was one of _receive_loop that read the response e
Delivered(s, e) == did.sid = s /\ did.event = <<e>>

\* C21: barge-in.  When upstream hands over a response with interrupted set,
\* the manager is Interrupted as the response is delivered and the client
\* gets an `interrupted` frame; the loop then calls resume(), which takes the
\* manager from Interrupted to Connected, and reads no further response
\* before that, so that no response is processed while the manager is
\* Interrupted; the responses that follow are forwarded (audio and text
\* frames), and the response with turn_complete set yields a `turn_complete`
\* frame with the turn's number and ends the turn.
C21_BargeIn ==
    [][\A s \in SessionIds :
        /\ Delivered(s, InterruptedEvent)' =>
              /\ Head(did'.fired) = INTERRUPTED
              /\ conn[s].client = "CONNECTED" => FrameTypes' = <<"interrupted">>
              /\ \/ conn'[s].loop = "resume" /\ conn'[s].m.state = INTERRUPTED
                 \/ /\ conn'[s].loop = "streaming" /\ conn'[s].m.state = CONNECTED
                    /\ did'.fired = <<INTERRUPTED, CONNECTED>>
        /\ (did'.sid = s /\ did'.op = "resume") =>
              /\ conn[s].loop = "resume"
              /\ conn[s].m.state = INTERRUPTED => conn'[s].m.state = CONNECTED
              /\ conn'[s].loop = "streaming"
        /\ (did'.sid = s /\ did'.event # <<>>) =>
              /\ conn[s].loop = "streaming"
              /\ conn[s].m.state # INTERRUPTED
        /\ (Delivered(s, TextEvent)' /\ conn[s].client = "CONNECTED") =>
              did'.frames = <<TextFrame(TextEvent.text)>>
        /\ (Delivered(s, AudioEvent)' /\ conn[s].client = "CONNECTED") =>
              did'.frames = <<AudioFrame("12ab")>>
        /\ Delivered(s, TurnCompleteEvent)' =>
              /\ conn[s].client = "CONNECTED" =>
                    did'.frames = <<TurnCompleteFrame(conn[s].turn_count)>>
              /\ conn'[s].loop \in {"top", "turn_complete"}
              /\ conn'[s].loop = "turn_complete" => conn[s].client = "CONNECTED"
        /\ (did'.sid = s /\ did'.op = "_receive_loop" /\ conn[s].loop = "turn_complete") =>
              conn'[s].loop = "top" /\ did'.frames = <<>>
      ]_vars

\* resume() after an interruption has put the manager back to Connected while
\* the client is there to have got the interrupted frame
C21_Witness ==
    \E s \in SessionIds :
        /\ did.sid = s /\ did.op = "resume" /\ did.fired = <<CONNECTED>>
        /\ conn[s].m.state = CONNECTED /\ conn[s].loop = "streaming"
        /\ conn[s].client = "CONNECTED"

\* the last step of s ended LiveSession.connect: the manager's connect() had
\* returned, or building the client had raised
ConnectEnded(s) ==
    /\ did'.sid = s
    /\ conn[s].at \in {"new", "connecting"}
    /\ conn'[s].at \notin {"new", "connecting"}

\* C22: LiveSession.connect reports the outcome of the upstream connect.  A
\* `connected` frame is written only if the manager is Connected, and if the
\* upstream connect failed (manager in Error) the client gets an `error`
\* frame and no `connected` frame.
C22_ConnectOutcomeReported ==
    [][\A s \in SessionIds :
        (ConnectEnded(s) /\ conn[s].client = "CONNECTED") =>
            /\ "connected" \in SentTypes' => conn'[s].m.state = CONNECTED
            /\ conn'[s].m.state = ERROR =>
                  "error" \in SentTypes' /\ "connected" \notin SentTypes'
      ]_vars

\* C23: handle_client registers the session under its id before the
\* session's lifecycle starts and keeps it registered while it runs; however
\* the lifecycle ends, the manager is disconnected first (the session is
\* inactive, the manager holds no stream, none of its streams is open
\* upstream, and a manager that had a stream is Closed) and the id is then
\* removed: once handle_client has returned, the id is not in the registry.
C23_RegisteredUntilReturn ==
    /\ [](\A s \in SessionIds :
            /\ conn[s].at \notin {"new", "done"} => s \in Registered
            /\ conn[s].at = "done" => s \notin Registered)
    /\ [][\A s \in SessionIds :
            (conn[s].at # "done" /\ conn'[s].at = "done") =>
                /\ ~conn'[s].is_active
                /\ conn'[s].m.session = NoStream
                /\ conn'[s].opened = {}
                /\ conn[s].m.session # NoStream => conn'[s].m.state = CLOSED
         ]_vars

\* handle_client has returned after a lifecycle that had connected: the
\* manager is Closed and the id is gone from the registry
C23_Witness ==
    \E s \in SessionIds :
        /\ conn[s].at = "done" /\ did.sid = s /\ did.op = "disconnect"
        /\ conn[s].m.state = CLOSED
        /\ s \notin Registered

\* the last step of s was handle_client taking a text of the client
FrameTaken(s) == did.sid = s /\ did.op = "receive_text" /\ did.result \in InboundData

\* C24: an error local to one inbound frame never terminates the session.
\* Whatever frame handle_client takes (a text or audio frame while the manager
\* is not Connected, a frame without its payload, audio that is no hex), the
\* session stays registered and active, its upstream streams stay open and
\* handle_client goes on to the next frame instead of tearing down.
C24_FrameErrorsAreLocal ==
    [][\A s \in SessionIds :
        FrameTaken(s)' =>
            /\ s \in Registered'
            /\ conn'[s].is_active
            /\ conn'[s].at \notin {"closing", "bye", "done"}
            /\ conn'[s].opened = conn[s].opened
      ]_vars

\* C25: sessions are independent.  With two sessions in one server, a step
\* of one of them (connect failure, frame error, tool failure, crash of the
\* receive loop, reset, the client going away and the teardown) leaves the
\* other's registry entry and its LiveSession as they were: manager state,
\* conversation history, resumption token, turn and tool-call counters.
C25_SessionsAreIndependent ==
    [][\A s, t \in SessionIds :
        (s # t /\ did'.sid = s) =>
            /\ (t \in Registered') = (t \in Registered)
            /\ conn'[t].m = conn[t].m
            /\ conn'[t].turn_count = conn[t].turn_count
            /\ conn'[t].tool_calls_count = conn[t].tool_calls_count
            /\ conn'[t] = conn[t]
      ]_vars

\* one session has been torn down after a frame error while the other is
\* registered, connected, with text sent and a token stored
C25_Witness ==
    /\ conn["sid-a"].at = "done" /\ did.sid = "sid-a" /\ did.op = "disconnect"
    /\ conn["sid-a"].client = "CONNECTED"
    /\ Registered = {"sid-b"}
    /\ conn["sid-b"].m.state = CONNECTED
    /\ conn["sid-b"].m.conversation_history # <<>>
    /\ conn["sid-b"].m.resumption_token = "tok1"
    /\ conn["sid-b"].turn_count = 1

\* the steps of s that need nothing from the client: SDK calls and sends
\* returning or raising, the receive loop, the tools
OwnStep(s) ==
    \/ ConnectErrorRaised(s) \/ ClientSendReturns(s)
    \/ UpstreamEntered(s) \/ UpstreamRefused(s) \/ UpstreamExited(s)
    \/ UpstreamExitedConnectRaises(s)
    \/ UpstreamSent(s) \/ UpstreamSendRaises(s)
    \/ ReceiveLoopTop(s) \/ ReceiveLoopEvent(s, UpstreamEvents) \/ ReceiveLoopResumes(s)
    \/ ReceiveLoopSendReturns(s)
    \/ ReceiveLoopStreamEnds(s) \/ ReceiveLoopStreamRaises(s)
    \/ ToolExecuted(s) \/ ToolResponseSent(s) \/ ToolResponseRaises(s)

\* C26: a fatal error in the receive loop is followed by cleanup, even if the
\* client keeps its socket open and sends nothing further.  Once the loop has
\* ended in its except branch and the server has no step left that it can
\* take without the client, the session is disconnected from upstream and
\* removed from the registry.
C26_LoopCrashIsCleanedUp ==
    \A s \in SessionIds :
        (conn[s].loop = "crashed" /\ conn[s].client = "CONNECTED" /\ ~ENABLED OwnStep(s)) =>
            /\ s \notin Registered
            /\ conn[s].opened = {}

\* the client of s has closed its socket and LiveSession.disconnect has
\* completed
ClosedAndDone(s) == conn[s].client = "DISCONNECTED" /\ conn[s].at = "done"

\* C27: when the client closes its socket, the upstream connection is released
\* (the manager's handle is cleared, no stream stays open, the state is
\* Closed) by the time the session's disconnect completes; from then on no
\* upstream response is forwarded to the client, no tool result is sent
\* upstream, and the receive loop stops when it next reaches the top of its
\* while loop instead of starting a new receive().
C27_ClientCloseReleasesUpstream ==
    [][\A s \in SessionIds :
        /\ (~ClosedAndDone(s) /\ ClosedAndDone(s)') =>
              /\ conn'[s].m.session = NoStream
              /\ conn'[s].opened = {}
              /\ conn'[s].m.state = CLOSED
        /\ (ClosedAndDone(s) /\ did'.sid = s) =>
              /\ did'.frames = <<>>
              /\ conn[s].loop # "toolsend" => did'.wrote = <<>> /\ conn'[s].loop # "toolsend"
              /\ conn[s].loop = "top" => conn'[s].loop = "ended"
      ]_vars

\* the last step of s was handle_client taking the text `data`
Took(s, data) == did.sid = s /\ did.op = "receive_text" /\ did.result = data
\* after the step, handle_client awaits the SDK call `op` with payload `arg`
Awaits(s, op, arg) == conn'[s].at = op /\ conn'[s].arg = arg
\* the texts that are no structured frame (no JSON object) but hex digits
RawAudio == {data \in InboundData : JsonLoads(data).kind # "dict" /\ FromHex(data).ok}

\* C28: inbound frame dispatch.  A ping frame yields exactly one pong frame
\* and no upstream write; a text frame calls send_text with its text and an
\* audio frame calls send_audio with its decoded payload (the SDK call is
\* awaited when the manager is connected); a frame of unknown type yields no
\* frame, no upstream write and no change of the session; inbound text that
\* is no structured frame is forwarded upstream as raw audio, decoded from hex.
C28_FrameDispatch ==
    [][\A s \in SessionIds :
        /\ Took(s, PingText)' =>
              /\ did'.frames = <<PongFrame>>
              /\ did'.wrote = <<>>
              /\ conn'[s] \in {conn[s], [conn[s] EXCEPT !.at = "pong"]}
        /\ (Took(s, TextText)' /\ SendGuard(conn[s].m)) => Awaits(s, "send_text", "Hello")
        /\ (Took(s, AudioText)' /\ SendGuard(conn[s].m)) =>
              Awaits(s, "send_audio", "\\x12\\xab")
        /\ Took(s, UnknownText)' =>
              /\ did'.frames = <<>>
              /\ did'.wrote = <<>>
              /\ conn'[s] = conn[s]
        /\ \A data \in RawAudio :
              (Took(s, data)' /\ SendGuard(conn[s].m)) =>
                  Awaits(s, "send_audio", FromHex(data).bytes)
      ]_vars

\* the step has ended the teardown of s
TornDown(s) == conn[s].at # "done" /\ conn'[s].at = "done"

\* C29: sending a frame to a client whose transport is closed, or closes
\* during the send, is swallowed.  Nothing is written unless the websocket is
\* connected; a step of the receive loop or of the tool handling with the
\* client gone writes nothing and goes on as it would have (the loop does not
\* end in its except branch because of the send); the teardown completes and
\* deregisters the session, writing `disconnected` as its last frame when the
\* websocket is connected and skipping it when it is not.
C29_SendToClosedIsSwallowed ==
    [][\A s \in SessionIds :
        did'.sid = s =>
            /\ did'.frames # <<>> => conn'[s].client = "CONNECTED"
            /\ conn'[s].client # "CONNECTED" => did'.frames = <<>>
            /\ (conn[s].client # "CONNECTED" /\ did'.event # <<>>) =>
                  conn'[s].loop \in {"streaming", "resume", "tool", "toolsend", "top"}
            /\ (conn[s].client # "CONNECTED" /\ did'.op = "execute_tool") =>
                  conn'[s].loop \in {"streaming", "tool", "toolsend"}
            /\ TornDown(s) =>
                  /\ s \notin Registered'
                  /\ (conn'[s].client = "CONNECTED" /\ conn[s].at # "bye") =>
                        did'.frames # <<>> /\ FrameTypes'[Len(FrameTypes')] = "disconnected"
                  /\ conn[s].at = "bye" => did'.frames = <<>>
            /\ (conn[s].at # "bye" /\ conn'[s].at = "bye") =>
                  FrameTypes'[Len(FrameTypes')] = "disconnected"
      ]_vars

\* the client had closed its socket: the teardown has completed without a
\* frame and the session is deregistered
C29_Witness ==
    \E s \in SessionIds :
        /\ did.sid = s /\ did.op = "disconnect" /\ did.frames = <<>>
        /\ conn[s].at = "done" /\ conn[s].client = "DISCONNECTED"
        /\ conn[s].m.state = CLOSED
        /\ s \notin Registered

\* the last step was a call of get_all_metrics
MetricsTaken == did.op = "get_all_metrics"

\* C30: get_all_metrics returns exactly one record per session in the
\* registry (registered by its handle_client and not yet deregistered), with
\* the session's id, turn count, tool-call count and the manager's state,
\* 'disconnected' while the session has no manager, and changes neither the
\* registry nor any session.
C30_MetricsPerRegisteredSession ==
    [][MetricsTaken' =>
        /\ Len(did'.metrics) = Cardinality(Registered)
        /\ \A s \in Registered :
              \E i \in 1..Len(did'.metrics) :
                  /\ did'.metrics[i].session_id = s
                  /\ did'.metrics[i].turn_count = conn[s].turn_count
                  /\ did'.metrics[i].tool_calls_count = conn[s].tool_calls_count
                  /\ did'.metrics[i].state =
                        IF conn[s].made THEN conn[s].m.state ELSE "disconnected"
        /\ \A s \in Registered : conn[s].at \notin {"new", "done"}
        /\ \A s \in SessionIds : conn[s].at \notin {"new", "done"} => s \in Registered
        /\ UNCHANGED <<sessions, conn>>
      ]_vars

\* metrics taken with two sessions registered: one live with its turn counted,
\* the other without a manager
C30_Witness ==
    /\ MetricsTaken
    /\ Len(did.metrics) = 2
    /\ ~conn["sid-a"].made
    /\ did.metrics[2].session_id = "sid-a" /\ did.metrics[2].state = "disconnected"
    /\ did.metrics[1].session_id = "sid-b" /\ did.metrics[1].state = CONNECTED
    /\ did.metrics[1].turn_count = 1

\* ------------------------------------------------- claims: counters and order
\* the step has ended reset_session of s: the manager's reset has returned
ResetCompleted(s) ==
    /\ did'.sid = s
    /\ \/ conn[s].at \in {"reset_connect", "reset_disconnect"} /\ did'.op = "connect"
       \/ /\ conn[s].at = "serving" /\ conn[s].made
          /\ did'.op = "receive_text" /\ did'.result = ResetText
          /\ conn'[s].at \in {"serving", "reset_sent"}
\* the step has left _handle_tool_calls of s at the await of an execute_tool
\* it has just called
InvocationStarted(s) ==
    /\ did'.sid = s
    /\ conn'[s].loop = "tool"
    /\ conn[s].loop # "tool" \/ conn'[s].todo < conn[s].todo

\* C31: turn_count and tool_calls_count never decrease except when
\* reset_session sets them to 0; tool_calls_count grows by exactly one per
\* tool invocation executed, and by nothing else; each turn_complete frame
\* carries the turn_count current when it is written, and the turn numbers of
\* the turn_complete frames a client gets between resets strictly increase.
C31_CountersAndTurnNumbers ==
    /\ [](\A s \in SessionIds :
            \A i, j \in 1..Len(conn[s].completed) :
                i < j => conn[s].completed[i] < conn[s].completed[j])
    /\ [][\A s \in SessionIds :
            /\ conn'[s].turn_count < conn[s].turn_count =>
                  ResetCompleted(s) /\ conn'[s].turn_count = 0
            /\ conn'[s].tool_calls_count < conn[s].tool_calls_count =>
                  ResetCompleted(s) /\ conn'[s].tool_calls_count = 0
            /\ ResetCompleted(s) =>
                  conn'[s].turn_count = 0 /\ conn'[s].tool_calls_count = 0
            /\ InvocationStarted(s) =>
                  conn'[s].tool_calls_count = conn[s].tool_calls_count + 1
            /\ conn'[s].tool_calls_count > conn[s].tool_calls_count => InvocationStarted(s)
            /\ did'.sid = s =>
                  \A i \in 1..Len(did'.frames) :
                      did'.frames[i].type = "turn_complete" =>
                          /\ did'.frames[i].turn_number = conn[s].turn_count
                          /\ did'.frames[i].turn_number = conn'[s].turn_count
         ]_vars

\* the client has got the turn_complete frames of turns 1 and 2, the second
\* just now, after two tool invocations
C31_Witness ==
    \E s \in SessionIds :
        /\ conn[s].completed = <<1, 2>>
        /\ did.sid = s /\ did.frames = <<TurnCompleteFrame(2)>>
        /\ conn[s].turn_count = 2 /\ conn[s].tool_calls_count = 2

\* the sequence of n times x
Times(n, x) == [i \in 1..n |-> x]
\* the types of the frames the loop body writes for the response e, in the
\* order of the body
ExpectedTypes(e) ==
    (IF e.data # "" THEN <<"audio">> ELSE <<>>)
        \o (IF e.text # None THEN <<"text">> ELSE <<>>)
        \o (IF e.tool_calls > 0
            THEN <<"tool_call_start">> \o Times(e.tool_calls, "tool_result") ELSE <<>>)
        \o (IF e.interrupted THEN <<"interrupted">> ELSE <<>>)
        \o (IF e.turn_complete THEN <<"turn_complete">> ELSE <<>>)
\* the same for the responses `read`, one after the other
RECURSIVE ExpectedOfAll(_)
ExpectedOfAll(read) ==
    IF read = <<>> THEN <<>> ELSE ExpectedTypes(Head(read)) \o ExpectedOfAll(Tail(read))
\* the types of the frames the loop of s has sent, its error frames aside
SentByLoop(s) == SelectSeq(conn[s].log, LAMBDA type : type # "error")

\* C32: the frames produced from upstream responses reach the client in the
\* order the responses were processed.  With the client connected, the frames
\* the receive loop has sent are, in this order, the frames of the first
\* response read, then those of the second, and so on, and for each response
\* audio, text, tool_call_start and the tool_result frames, interrupted,
\* turn_complete; the frames of a response are all sent before the next
\* response is read.
C32_FramesInProcessingOrder ==
    \A s \in SessionIds :
        (conn[s].recorded = "frames" /\ conn[s].client = "CONNECTED") =>
            /\ IsPrefix(SentByLoop(s), ExpectedOfAll(conn[s].read))
            /\ conn[s].loop \in {"streaming", "top", "ended"} =>
                  SentByLoop(s) = ExpectedOfAll(conn[s].read)

\* a response with all five parts was processed, then one with audio and
\* text: their eight frames are out, in order
C32_Witness ==
    \E s \in SessionIds :
        /\ conn[s].read = <<FullEvent(1), AudioTextEvent>>
        /\ SentByLoop(s) = <<"audio", "text", "tool_call_start", "tool_result",
                             "interrupted", "turn_complete", "audio", "text">>
        /\ conn[s].client = "CONNECTED"

\* a step of s calls execute_tool for a further invocation (tool_calls_count is
\* counted up before each call) while no invocation of the batch finishes
StartsBesideRunning(s) ==
    /\ ServerStep(s, InboundData, UpstreamEvents)
    /\ conn'[s].tool_calls_count = conn[s].tool_calls_count + 1
    /\ conn'[s].todo = conn[s].todo

\* C33: the invocations of one tool-call batch are executed concurrently.
\* While _handle_tool_calls awaits an invocation of a batch and later
\* invocations of the batch are still to be made, a later invocation can
\* start before the awaited one has finished: a slow handler does not delay
\* the start of the others.
C33_BatchRunsConcurrently ==
    \A s \in SessionIds :
        (conn[s].loop = "tool" /\ conn[s].todo >= 2) => ENABLED StartsBesideRunning(s)

\* handle_client of s is inside the manager's reset()
InReset(s) == conn[s].at \in {"reset_disconnect", "reset_connect"}

\* C34: a reset frame of the client makes the session call the manager's
\* reset() (disconnect, clear, connect), which it awaits to its end; the
\* session then sets turn_count and tool_calls_count to 0 and writes exactly
\* one session_reset frame with its session id, and writes that frame at no
\* other time; the session stays registered, its websocket stays as it was and
\* handle_client goes on to the next frame; the session id never changes.
C34_ResetKeepsTheSession ==
    /\ [](\A s \in SessionIds : conn[s].session_id = s)
    /\ [][\A s \in SessionIds :
            /\ Took(s, ResetText)' =>
                  /\ (InReset(s)' /\ did'.frames = <<>>) \/ ResetCompleted(s)
                  /\ s \in Registered'
            /\ (InReset(s) /\ did'.sid = s /\ conn'[s].at # conn[s].at) =>
                  InReset(s)' \/ ResetCompleted(s)
            /\ ResetCompleted(s) =>
                  /\ conn'[s].m.conversation_history = <<>>
                  /\ conn'[s].turn_count = 0 /\ conn'[s].tool_calls_count = 0
                  /\ conn[s].client = "CONNECTED" =>
                        did'.frames = <<SessionResetFrame(s)>>
                  /\ s \in Registered'
                  /\ conn'[s].client = conn[s].client
                  /\ conn'[s].session_id = conn[s].session_id
                  /\ conn'[s].at \in {"serving", "reset_sent"}
                  /\ conn'[s].at = "reset_sent" => conn[s].client = "CONNECTED"
            /\ (did'.sid = s /\ conn[s].at = "reset_sent" /\ conn'[s].at # conn[s].at) =>
                  conn'[s].at = "serving" /\ did'.frames = <<>>
            /\ (did'.sid = s /\ "session_reset" \in SentTypes') => ResetCompleted(s)
         ]_vars

\* a reset has completed with the reconnection made while the receive loop
\* was in a turn: the session_reset frame is out, the turn count is 0 again
C34_Witness ==
    \E s \in SessionIds :
        /\ did.sid = s /\ did.op = "connect" /\ did.frames = <<SessionResetFrame(s)>>
        /\ conn[s].at = "serving" /\ conn[s].m.state = CONNECTED
        /\ conn[s].loop = "streaming" /\ conn[s].turn_count = 0
        /\ s \in Registered

\* ---------------------------------------------- claims: history and resumption
\* C35: the conversation history is append-only between resets.  No step
\* other than one of reset() shortens it or changes an entry it has: what was
\* there stays where it was.  get_conversation_history returns the entries
\* in append order, in a list of its own, and leaves the history alone; when
\* the caller changes the list it got (append, clear, pop, item assignment),
\* the list changes and the manager's history does not.
C35_HistoryAppendOnly ==
    [][/\ out'.op # "reset" => IsPrefix(conversation_history, conversation_history')
       /\ out'.op = "get_conversation_history" =>
             /\ held' # <<>>
             /\ HeldItems' = conversation_history
             /\ UNCHANGED conversation_history
       /\ out'.op = "caller" =>
             /\ HeldItems' # HeldItems
             /\ UNCHANGED conversation_history
      ]_vars

\* the caller has emptied the list it got while the manager's history has
\* its two entries, in the order they were sent
C35_Witness ==
    /\ out.op = "caller"
    /\ held # <<>> /\ held[1].changed /\ HeldItems = <<>>
    /\ conversation_history = <<Entry("Hello"), Entry("Hi")>>

\* the step is a call of connect() by task t that goes to the upstream
\* endpoint, made while the manager holds no stream
Reconnects(t) ==
    /\ pc[t].op = "idle" /\ pc'[t].op = "connect"
    /\ session = NoStream

\* C36: the stored resumption token is used to re-establish a dropped
\* upstream connection.  When connect() is called with a token stored and no
\* stream held, the configuration it presents to the upstream endpoint
\* carries that token as the session_resumption handle.
C36_TokenPresentedOnReconnect ==
    [][\A t \in Tasks :
        (Reconnects(t) /\ resumption_token # None) =>
            pc'[t].payload = resumption_token
      ]_vars

\* C37: in every reachable state of a SessionManager, also when a running
\* receive() interleaves with disconnect() or reset(), Connected implies that
\* the manager holds the handle of a stream that is open upstream, and
\* Disconnected or Closed implies that it holds none; a trailing interrupted
\* response followed by resume() never makes a manager Connected that had
\* disconnected.
C37_ConnectedMeansHandleHeld ==
    /\ state = CONNECTED => session # NoStream /\ session \in opened
    /\ state \in {DISCONNECTED, CLOSED} => session = NoStream

\* the _receive_loop task of s is there and has not ended
LoopRuns(s) == conn[s].loop \notin {"none", "ended", "crash", "crashed"}

\* the _receive_loop task of s has entered an upstream stream: it was given
\* one by a Connected manager
LoopReads(s) == LoopRuns(s) /\ conn[s].turn_count >= 1

\* C38: the receive loop survives a reset.  While handle_client is inside the
\* reset a client's reset frame has started, no step of the session other
\* than a failure raised by the upstream stream ends a receive loop that was
\* reading the upstream responses, so that when the reset has completed with
\* the reconnection made, the session, registered and Connected, still has
\* the task that drains the upstream responses.
C38_LoopSurvivesReset ==
    [][\A s \in SessionIds :
        /\ (InReset(s) /\ did'.sid = s /\ LoopReads(s) /\ did'.result # "raised") =>
              LoopRuns(s)'
        /\ (ResetCompleted(s) /\ LoopReads(s) /\ conn'[s].m.state = CONNECTED) =>
              s \in Registered' /\ LoopRuns(s)'
      ]_vars

\* the states of the state_change frames whose tasks have not run yet
StatesPending(s) == [i \in 1..Len(conn[s].tasks) |-> conn[s].tasks[i].state]

\* C39: while the client transport is open, the state_change frames the
\* client has got, followed by those of the tasks that have not run yet, are
\* the states the manager has passed into, one frame for each change and in
\* the order of the changes, the last of them being the manager's state.
C39_StateChangeFramesInOrder ==
    \A s \in SessionIds :
        (conn[s].recorded = "states" /\ conn[s].client = "CONNECTED") =>
            /\ conn[s].changed = conn[s].log \o StatesPending(s)
            /\ IF conn[s].changed = <<>>
               THEN ~conn[s].made \/ conn[s].m.state = DISCONNECTED
               ELSE conn[s].changed[Len(conn[s].changed)] = conn[s].m.state

\* the client, still there, has got the frames of a reset that followed an
\* interruption, and no task is left to run
C39_Witness ==
    \E s \in SessionIds :
        /\ conn[s].recorded = "states" /\ conn[s].client = "CONNECTED"
        /\ conn[s].tasks = <<>>
        /\ Len(conn[s].log) >= 6
        /\ \E i \in 1..Len(conn[s].log) : conn[s].log[i] = INTERRUPTED
        /\ \E i \in 1..Len(conn[s].log) : conn[s].log[i] = CLOSED

====
